---------------------------- MODULE Spec2Model ----------------------------
(***************************************************************************)
(* A model of the Raytracer scene core: the ray generators (ray.rs), the   *)
(* emitter and absorber behaviours (emitters.rs, absorber.rs), the         *)
(* occlusion engine (occlusion.rs), the scene store helpers                *)
(* (object_utils.rs, action_utils.rs) and the control loop (main.rs).      *)
(*                                                                         *)
(* Numbers.  The program computes in f32.  Here a coordinate, a radius or  *)
(* a length is a whole number of pixels, an angle or a cosine is a whole   *)
(* number of 1/FP units, and every f32 operation rounds its exact result   *)
(* to the nearest such number.                                             *)
(***************************************************************************)
EXTENDS Integers, Sequences, FiniteSets, TLC

VARIABLES
    store,                    \* OBJ_COLLECTION: the sequence of scene objects
    screen,                   \* <<screen_width(), screen_height()>> of the window
    collection_size,          \* main: let mut collection_size
    re_init_rays,             \* main: let mut re_init_rays
    cursor_on_object_index,   \* main: let mut cursor_on_object_index (an Option<usize>)
    cursor_is_moving_object,  \* main: let mut cursor_is_moving_object
    mouse_delta,              \* main: let mut mouse_delta (TRUE when it is not (0, 0))
    log,                      \* the last line written to standard error ("" when none)
    last,                     \* the last operation applied and its arguments
    call,                     \* a pending call of a pure function: its name and arguments
    ret                       \* what that call returned (None before it ran)

vars == <<store, screen, collection_size, re_init_rays, cursor_on_object_index,
          cursor_is_moving_object, mouse_delta, log, last, call, ret>>

---------------------------------------------------------------------------
(* globals.rs *)

OBJC_MAX_OBJ_COUNT == 100
OBJC_MAX_RAY_COUNT == 100
OBJC_MIN_RAY_COUNT == 3
OBJC_MOUSE_EPSILON == 5
OBJD_CIRCLE_RADIUS == 50
OBJD_RAY_COUNT == 32

\* The resize step; main.rs passes it under the name OBJD_SIZE_DELTA_FACTOR.
OBJD_ENLARGE_REDUCE_FACTOR == 5

\* The scale of angles, sines and cosines: 1/FP radian, 1/FP of a unit.
FP == 100 * 100

\* The scale of a sub-pixel length (the spacing and the offsets of a collimated beam).
PX == 10 * 10

\* std::f32::consts::PI, in 1/FP radian.
PI == 31416

HALF_PI == PI \div 2

TWO_PI == 2 * PI

OBJD_COLLIMATED_BEAM_DIAMETER == 2 * OBJD_CIRCLE_RADIUS

OBJD_COLLIMATED_ORIENTATION == 0

OBJD_SPOTLIGHT_BEAM_ANGLE == PI \div 3

OBJD_SPOTLIGHT_ORIENTATION == 0

---------------------------------------------------------------------------
(* Option<T> *)

None == [some |-> FALSE]

Some(v) == [some |-> TRUE, v |-> v]

---------------------------------------------------------------------------
(* f32 arithmetic *)

Abs(x) == IF x < 0 THEN -x ELSE x

\* a / b rounded to the nearest whole number (b > 0), halves upwards.
RoundDiv(a, b) == (2 * a + b) \div (2 * b)

\* sin of x, 0 <= x <= HALF_PI, by its Taylor polynomial to x^9 in Horner form.
SinQ(x) ==
    LET x2 == RoundDiv(x * x, FP)
        t4 == FP - RoundDiv(x2, 72)
        t3 == FP - RoundDiv(x2 * t4, 42 * FP)
        t2 == FP - RoundDiv(x2 * t3, 20 * FP)
        t1 == FP - RoundDiv(x2 * t2, 6 * FP)
    IN  RoundDiv(x * t1, FP)

\* f32::sin: the angle is reduced to one turn, then to the first quadrant.
Sin(angle) ==
    LET a == angle % TWO_PI
    IN  IF a <= HALF_PI THEN SinQ(a)
        ELSE IF a <= PI THEN SinQ(PI - a)
        ELSE IF a <= PI + HALF_PI THEN -SinQ(a - PI)
        ELSE -SinQ(TWO_PI - a)

\* f32::cos
Cos(angle) == Sin(angle + HALF_PI)

\* The largest s with s * s <= n (n >= 0).
RECURSIVE SqrtSearch(_, _, _)
SqrtSearch(n, lo, hi) ==
    IF lo >= hi THEN lo
    ELSE LET mid == (lo + hi + 1) \div 2
         IN  IF mid * mid <= n THEN SqrtSearch(n, mid, hi)
             ELSE SqrtSearch(n, lo, mid - 1)

\* The largest whole number whose square is at most n.
FloorSqrt(n) == SqrtSearch(n, 0, 46340)

\* f32::sqrt, rounded to the nearest whole number.
Sqrt(n) == LET s == FloorSqrt(n) IN IF n - s * s > s THEN s + 1 ELSE s

screen_width == screen[1]

screen_height == screen[2]

---------------------------------------------------------------------------
(* ray.rs *)

\* ObjectRay::new; thickness and color are the constants OBJD_RAY_WIDTH and
\* OBJD_RAY_COLOR on every ray and are left out.
ObjectRay(start_x, start_y, end_x, end_y) ==
    [start_x |-> start_x, start_y |-> start_y, end_x |-> end_x, end_y |-> end_y]

\* angle = (index as f32 / ray_count as f32) * 2.0 * PI
IsotropicAngle(index, ray_count) == RoundDiv(index * TWO_PI, ray_count)

init_isotropic_rays(start_x, start_y, ray_count) ==
    [k \in 1..ray_count |->
        LET angle == IsotropicAngle(k - 1, ray_count)
        IN  ObjectRay(start_x, start_y,
                      start_x + RoundDiv(Cos(angle) * screen_width, FP),
                      start_y + RoundDiv(Sin(angle) * screen_height, FP))]

\* The mutant of CollimatedSpacing: the diameter divided among n gaps, not n - 1.
CollimatedSpacing_PerRay(collimated_beam_diameter, ray_count) ==
    RoundDiv(collimated_beam_diameter * PX, ray_count)

\* spacing = collimated_beam_diameter / (ray_count - 1) as f32, in 1/PX pixel
CollimatedSpacing(collimated_beam_diameter, ray_count) ==
    RoundDiv(collimated_beam_diameter * PX, ray_count - 1)

\* offset = (index - (ray_count - 1) / 2) as f32 * spacing, in 1/PX pixel; the
\* subtraction and the division by 2 are i32 operations.
CollimatedOffset(index, ray_count, spacing) ==
    (index - ((ray_count - 1) \div 2)) * spacing

\* The f32 value that is not a number.
NaN == "NaN"

\* init_collimated_rays.  With ray_count = 1 the f32 division by
\* (ray_count - 1) = 0 gives an infinite spacing without a panic, the offset
\* 0 * spacing of the one ray is NaN, and so is every coordinate built on it.
init_collimated_rays(start_x, start_y, orientation, collimated_beam_diameter, ray_count) ==
    LET cos_x == Cos(orientation)
        sin_y == Sin(orientation)
        perp == <<-sin_y, cos_x>>
        spacing == CollimatedSpacing(collimated_beam_diameter, ray_count)
    IN  IF ray_count = 1 THEN <<ObjectRay(NaN, NaN, NaN, NaN)>>
        ELSE
        [k \in 1..ray_count |->
            LET offset == CollimatedOffset(k - 1, ray_count, spacing)
                offset_x == RoundDiv(offset * perp[1], PX * FP)
                offset_y == RoundDiv(offset * perp[2], PX * FP)
            IN  ObjectRay(start_x + offset_x,
                          start_y + offset_y,
                          start_x + offset_x + RoundDiv(cos_x * screen_width, FP),
                          start_y + offset_y + RoundDiv(sin_y * screen_height, FP))]

---------------------------------------------------------------------------
(* object_utils.rs *)

linspace(x1, x2, sample_size) ==
    IF sample_size <= 1 THEN None
    ELSE IF sample_size = 2 THEN Some(<<x1, x2>>)
    ELSE LET diff == RoundDiv(x2 - x1, sample_size - 1)
         IN  Some([k \in 1..sample_size |-> x1 + (k - 1) * diff])

---------------------------------------------------------------------------
(* ray.rs *)

\* init_spotlight_rays; "panic" when linspace returns None (the expect).
init_spotlight_rays(start_x, start_y, orientation, spotlight_beam_angle, ray_count) ==
    LET half_angle == RoundDiv(spotlight_beam_angle, 2)
        angles == linspace(orientation - half_angle, orientation + half_angle, ray_count)
    IN  IF ~angles.some THEN "panic"
        ELSE [k \in 1..ray_count |->
                ObjectRay(start_x, start_y,
                          start_x + RoundDiv(screen_width * Cos(angles.v[k]), FP),
                          start_y + RoundDiv(screen_height * (-1 * Sin(angles.v[k])), FP))]

---------------------------------------------------------------------------
(* circle.rs, absorber.rs, emitters.rs: the scene objects.  A RaytracerObjects *)
(* value is a record tagged by kind; the nested base_object / base_emitter     *)
(* structs are flattened and color_fill is left out.                           *)

\* ObjectCircle::new, wrapped in RaytracerObjects::ObjectCircle
ObjectCircle(pos_x, pos_y, radius) ==
    [kind |-> "ObjectCircle", pos_x |-> pos_x, pos_y |-> pos_y, radius |-> radius]

\* AbsorberPerfect::new, wrapped in Absorbers::AbsorberPerfect
AbsorberPerfect(pos_x, pos_y, radius) ==
    [kind |-> "AbsorberPerfect", pos_x |-> pos_x, pos_y |-> pos_y, radius |-> radius]

\* EmitterIsotropic::new
EmitterIsotropic(pos_x, pos_y, radius, rays) ==
    [kind |-> "EmitterIsotropic", pos_x |-> pos_x, pos_y |-> pos_y, radius |-> radius,
     rays |-> rays]

\* EmitterCollimated::new
EmitterCollimated(pos_x, pos_y, radius, rays, orientation, collimated_beam_diameter) ==
    [kind |-> "EmitterCollimated", pos_x |-> pos_x, pos_y |-> pos_y, radius |-> radius,
     rays |-> rays, orientation |-> orientation,
     collimated_beam_diameter |-> collimated_beam_diameter]

\* EmitterSpotlight::new
EmitterSpotlight(pos_x, pos_y, radius, rays, orientation, spotlight_beam_angle) ==
    [kind |-> "EmitterSpotlight", pos_x |-> pos_x, pos_y |-> pos_y, radius |-> radius,
     rays |-> rays, orientation |-> orientation,
     spotlight_beam_angle |-> spotlight_beam_angle]

EmitterKinds == {"EmitterIsotropic", "EmitterCollimated", "EmitterSpotlight"}

\* if let RaytracerObjects::Emitters(_) = obj
IsEmitter(o) == o.kind \in EmitterKinds

\* A mutant of the absorber filter: plain circles pass it too.
IsAbsorber_OrCircle(o) == o.kind \in {"AbsorberPerfect", "ObjectCircle"}

\* if let RaytracerObjects::Absorbers(_) = obj
IsAbsorber(o) == o.kind = "AbsorberPerfect"

\* The rays of emitter o regenerated at (pos_x, pos_y) with ray_count rays: the
\* match on the emitter's kind that move_object, change_rays_count and
\* init_all_rays each spell out.
GenerateRays(o, pos_x, pos_y, ray_count) ==
    CASE o.kind = "EmitterIsotropic" ->
            init_isotropic_rays(pos_x, pos_y, ray_count)
      [] o.kind = "EmitterCollimated" ->
            init_collimated_rays(pos_x, pos_y, o.orientation,
                                 o.collimated_beam_diameter, ray_count)
      [] o.kind = "EmitterSpotlight" ->
            init_spotlight_rays(pos_x, pos_y, o.orientation,
                                o.spotlight_beam_angle, ray_count)

\* let ray_count = if rays.is_empty() { OBJD_RAY_COUNT } else { rays.len() as i32 }
CurrentRayCount(o) == IF o.rays = <<>> THEN OBJD_RAY_COUNT ELSE Len(o.rays)

\* A mutant of move_object: the rays are carried along to the new position
\* instead of being generated again.
Emitters_move_object_Carried(o, pos_x, pos_y) ==
    [o EXCEPT !.pos_x = pos_x, !.pos_y = pos_y,
              !.rays = [k \in DOMAIN o.rays |->
                            [start_x |-> o.rays[k].start_x + pos_x - o.pos_x,
                             start_y |-> o.rays[k].start_y + pos_y - o.pos_y,
                             end_x |-> o.rays[k].end_x + pos_x - o.pos_x,
                             end_y |-> o.rays[k].end_y + pos_y - o.pos_y]]]

\* impl Movable for Emitters
Emitters_move_object(o, pos_x, pos_y) ==
    [o EXCEPT !.pos_x = pos_x, !.pos_y = pos_y,
              !.rays = GenerateRays(o, pos_x, pos_y, CurrentRayCount(o))]

\* The lines change_rays_count prints.
MSG_TOO_MANY_RAYS == "Raytracer ~Err. Added too many rays, more than OBJC_MAX_RAY_COUNT."

MSG_BELOW_MIN_IGNORED == "Raytracer ~Err. Cannot reduce below minimum ray count. Operation ignored."

MSG_BELOW_MIN == "Raytracer ~Err. Cannot reduce below minimum ray count."

\* fn check_rays_range: the line it prints ("" when none).
check_rays_range(ray_count, change_rays) ==
    IF ray_count + change_rays > OBJC_MAX_RAY_COUNT THEN MSG_TOO_MANY_RAYS
    ELSE IF ray_count + change_rays < OBJC_MIN_RAY_COUNT THEN MSG_BELOW_MIN_IGNORED
    ELSE ""

\* A mutant of change_rays_count: the minimum is checked one too low.
Emitters_change_rays_count_MinOffByOne(o, change_rays) ==
    LET ray_count == Len(o.rays)
    IN  IF ray_count + change_rays >= OBJC_MIN_RAY_COUNT - 1
        THEN [o |-> [o EXCEPT !.rays = GenerateRays(o, o.pos_x, o.pos_y,
                                                    ray_count + change_rays)],
              log |-> check_rays_range(ray_count, change_rays)]
        ELSE [o |-> o, log |-> MSG_BELOW_MIN]

\* A mutant of change_rays_count: a count below the minimum is raised to it.
Emitters_change_rays_count_FloorAtMin(o, change_rays) ==
    LET ray_count == Len(o.rays)
    IN  IF ray_count + change_rays >= OBJC_MIN_RAY_COUNT
        THEN [o |-> [o EXCEPT !.rays = GenerateRays(o, o.pos_x, o.pos_y,
                                                    ray_count + change_rays)],
              log |-> check_rays_range(ray_count, change_rays)]
        ELSE [o |-> [o EXCEPT !.rays = GenerateRays(o, o.pos_x, o.pos_y,
                                                    OBJC_MIN_RAY_COUNT)],
              log |-> MSG_BELOW_MIN]

\* A mutant of change_rays_count: a count above the maximum is clamped to it.
Emitters_change_rays_count_Clamped(o, change_rays) ==
    LET ray_count == Len(o.rays)
        wanted == ray_count + change_rays
        kept == IF wanted > OBJC_MAX_RAY_COUNT THEN OBJC_MAX_RAY_COUNT ELSE wanted
    IN  IF wanted >= OBJC_MIN_RAY_COUNT
        THEN [o |-> [o EXCEPT !.rays = GenerateRays(o, o.pos_x, o.pos_y, kept)],
              log |-> check_rays_range(ray_count, change_rays)]
        ELSE [o |-> o, log |-> MSG_BELOW_MIN]

\* impl VariableRays for Emitters: the emitter afterwards and the line printed.
Emitters_change_rays_count(o, change_rays) ==
    LET ray_count == Len(o.rays)
    IN  IF ray_count + change_rays >= OBJC_MIN_RAY_COUNT
        THEN [o |-> [o EXCEPT !.rays = GenerateRays(o, o.pos_x, o.pos_y,
                                                    ray_count + change_rays)],
              log |-> check_rays_range(ray_count, change_rays)]
        ELSE [o |-> o, log |-> MSG_BELOW_MIN]

---------------------------------------------------------------------------
(* occlusion.rs.  The coefficients a, b, c and the discriminant are whole     *)
(* numbers; sol_1 and sol_2 are held in units of 1/FP and the hit point is    *)
(* rounded to whole pixels.                                                   *)

\* The coefficients of the quadratic: a, b, c and the discriminant.
Quadratic(occluder, ray) ==
    LET xs == ray.start_x
        xf == ray.end_x
        ys == ray.start_y
        yf == ray.end_y
        slope == <<xf - xs, yf - ys>>
        a == slope[1] * slope[1] + slope[2] * slope[2]
        b == 2 * (slope[1] * (xs - occluder.pos_x) + slope[2] * (ys - occluder.pos_y))
        c == (xs - occluder.pos_x) * (xs - occluder.pos_x)
             + (ys - occluder.pos_y) * (ys - occluder.pos_y)
             - occluder.radius * occluder.radius
    IN  [slope |-> slope, a |-> a, b |-> b, c |-> c, discriminant |-> b * b - 4 * a * c]

\* A mutant of the solutions: 1.0 instead of 0.0 when a = 0.
Solution_OneForNoLength(q, sign) ==
    IF q.a # 0 THEN RoundDiv((-q.b + sign * Sqrt(q.discriminant)) * FP, 2 * q.a) ELSE FP

\* sol_1 (sign = -1) and sol_2 (sign = 1): (-b +- sqrt_discriminant) / (2.0 * a), 0.0 if a = 0
Solution(q, sign) ==
    IF q.a # 0 THEN RoundDiv((-q.b + sign * Sqrt(q.discriminant)) * FP, 2 * q.a) ELSE 0

\* (xs + sol * slope.0, ys + sol * slope.1)
PointAt(ray, slope, sol) ==
    <<ray.start_x + RoundDiv(sol * slope[1], FP), ray.start_y + RoundDiv(sol * slope[2], FP)>>

\* A mutant of occlusion: the far solution is tried first.
occlusion_FarFirst(occluder, ray) ==
    LET q == Quadratic(occluder, ray)
    IN  IF q.discriminant < 0 THEN None
        ELSE LET sol_1 == Solution(q, -1)
                 sol_2 == Solution(q, 1)
             IN  IF 0 < sol_2 /\ sol_2 <= FP THEN Some(PointAt(ray, q.slope, sol_2))
                 ELSE IF 0 < sol_1 /\ sol_1 <= FP THEN Some(PointAt(ray, q.slope, sol_1))
                 ELSE None

\* A mutant of occlusion: a solution beyond the ray's end is accepted.
occlusion_BeyondEnd(occluder, ray) ==
    LET q == Quadratic(occluder, ray)
    IN  IF q.discriminant < 0 THEN None
        ELSE LET sol_1 == Solution(q, -1)
                 sol_2 == Solution(q, 1)
             IN  IF 0 < sol_1 THEN Some(PointAt(ray, q.slope, sol_1))
                 ELSE IF 0 < sol_2 THEN Some(PointAt(ray, q.slope, sol_2))
                 ELSE None

\* pub fn occlusion
occlusion(occluder, ray) ==
    LET q == Quadratic(occluder, ray)
    IN  IF q.discriminant < 0 THEN None
        ELSE LET sol_1 == Solution(q, -1)
                 sol_2 == Solution(q, 1)
             IN  IF 0 < sol_1 /\ sol_1 <= FP THEN Some(PointAt(ray, q.slope, sol_1))
                 ELSE IF 0 < sol_2 /\ sol_2 <= FP THEN Some(PointAt(ray, q.slope, sol_2))
                 ELSE None

\* ((x1 - x0).powi(2) + (y1 - y0).powi(2)).sqrt(), in 1/PX pixel
Length(x0, y0, x1, y1) ==
    Sqrt(((x1 - x0) * (x1 - x0) + (y1 - y0) * (y1 - y0)) * PX * PX)

\* The body of the loop over the absorbers: the ray after one absorber.
ShortenRay(ray, absorber) ==
    LET hit == occlusion(absorber, ray)
    IN  IF hit.some
        THEN LET hit_point == hit.v
                 current_length == Length(ray.start_x, ray.start_y, ray.end_x, ray.end_y)
                 new_length == Length(ray.start_x, ray.start_y, hit_point[1], hit_point[2])
             IN  IF new_length < current_length
                 THEN [ray EXCEPT !.end_x = hit_point[1], !.end_y = hit_point[2]]
                 ELSE ray
        ELSE ray

\* A mutant of the loop over the absorbers: it stops at the first absorber hit.
RECURSIVE OccludeRay_FirstHit(_, _)
OccludeRay_FirstHit(ray, absorbers) ==
    IF absorbers = <<>> THEN ray
    ELSE IF occlusion(Head(absorbers), ray).some THEN ShortenRay(ray, Head(absorbers))
    ELSE OccludeRay_FirstHit(ray, Tail(absorbers))

\* for absorber in &absorbers { ... }: the ray after every absorber, in order.
RECURSIVE OccludeRay(_, _)
OccludeRay(ray, absorbers) ==
    IF absorbers = <<>> THEN ray
    ELSE OccludeRay(ShortenRay(ray, Head(absorbers)), Tail(absorbers))

\* pub fn check_for_occlusion
check_for_occlusion(collection) ==
    LET absorbers == SelectSeq(collection, IsAbsorber)
    IN  [index \in DOMAIN collection |->
            IF IsEmitter(collection[index])
            THEN [collection[index] EXCEPT
                    !.rays = [j \in DOMAIN collection[index].rays |->
                                OccludeRay(collection[index].rays[j], absorbers)]]
            ELSE collection[index]]

---------------------------------------------------------------------------
(* object_utils.rs *)

\* init_all_rays: every emitter's rays regenerated at its position.
init_all_rays(collection) ==
    [i \in DOMAIN collection |->
        IF IsEmitter(collection[i])
        THEN [collection[i] EXCEPT
                !.rays = GenerateRays(collection[i], collection[i].pos_x,
                                      collection[i].pos_y, CurrentRayCount(collection[i]))]
        ELSE collection[i]]

\* A mutant of add_object_to_collection: the object is not pushed.
add_object_to_collection_Skipped(collection, new_object) == collection

\* add_object_to_collection, the write lock acquired (Ok).
add_object_to_collection(collection, new_object) == Append(collection, new_object)

---------------------------------------------------------------------------
(* add_to_scene_actions.rs *)

ObjectTypes ==
    {"circle_none", "emitter_isotropic", "emitter_collimated", "emitter_spotlight",
     "absorber_perfect"}

\* The object add_object_to_scene builds for object_type at the mouse position.
NewObject(object_type, mouse_x, mouse_y) ==
    CASE object_type = "circle_none" ->
            ObjectCircle(mouse_x, mouse_y, OBJD_CIRCLE_RADIUS)
      [] object_type = "emitter_isotropic" ->
            EmitterIsotropic(mouse_x, mouse_y, OBJD_CIRCLE_RADIUS,
                             init_isotropic_rays(mouse_x, mouse_y, OBJD_RAY_COUNT))
      [] object_type = "emitter_collimated" ->
            EmitterCollimated(mouse_x, mouse_y, OBJD_CIRCLE_RADIUS,
                              init_collimated_rays(mouse_x, mouse_y,
                                                   OBJD_COLLIMATED_ORIENTATION,
                                                   OBJD_COLLIMATED_BEAM_DIAMETER,
                                                   OBJD_RAY_COUNT),
                              OBJD_COLLIMATED_ORIENTATION, OBJD_COLLIMATED_BEAM_DIAMETER)
      [] object_type = "emitter_spotlight" ->
            EmitterSpotlight(mouse_x, mouse_y, OBJD_CIRCLE_RADIUS,
                             init_spotlight_rays(mouse_x, mouse_y,
                                                 OBJD_SPOTLIGHT_ORIENTATION,
                                                 OBJD_SPOTLIGHT_BEAM_ANGLE,
                                                 OBJD_RAY_COUNT),
                             OBJD_SPOTLIGHT_ORIENTATION, OBJD_SPOTLIGHT_BEAM_ANGLE)
      [] object_type = "absorber_perfect" ->
            AbsorberPerfect(mouse_x, mouse_y, OBJD_CIRCLE_RADIUS)

\* add_object_to_scene: an unknown object_type adds nothing.
add_object_to_scene(collection, object_type, mouse_x, mouse_y) ==
    IF object_type \in ObjectTypes
    THEN add_object_to_collection(collection, NewObject(object_type, mouse_x, mouse_y))
    ELSE collection

---------------------------------------------------------------------------
(* The mutators of the objects: absorber.rs, circle.rs, emitters.rs *)

\* The radius from which an emitter still shrinks (the literal 30. of
\* Emitters::change_radius).
EMITTER_SHRINK_RADIUS == 30

\* impl VariableSize for Emitters
Emitters_change_radius(o, factor) ==
    IF o.radius >= EMITTER_SHRINK_RADIUS /\ factor < 0 THEN [o EXCEPT !.radius = @ + factor]
    ELSE IF factor > 0 THEN [o EXCEPT !.radius = @ + factor]
    ELSE o

\* impl VariableSize for Absorbers
Absorbers_change_radius(o, factor) ==
    LET new_radius == o.radius + factor
    IN  [o EXCEPT !.radius = IF new_radius > 0 THEN new_radius ELSE 0]

\* VariableSize for ObjectCircle: the delta is added, the radius floored at zero.
ObjectCircle_change_radius(o, factor) ==
    LET new_radius == o.radius + factor
    IN  [o EXCEPT !.radius = IF new_radius > 0 THEN new_radius ELSE 0]

\* VariableOrientation for Emitters: the orientation rotated by the delta and
\* wrapped into [0, 2 PI); an isotropic emitter has none.
Emitters_change_orientation(o, factor) ==
    IF o.kind = "EmitterIsotropic" THEN o
    ELSE [o EXCEPT !.orientation = (@ + factor) % TWO_PI]

\* impl Movable for ObjectCircle, and for Absorbers by delegation
ObjectCircle_move_object(o, pos_x, pos_y) == [o EXCEPT !.pos_x = pos_x, !.pos_y = pos_y]

---------------------------------------------------------------------------
(* action_utils.rs, emitter_actions.rs.  An index is a position in the      *)
(* sequence, counted from 1 where the program counts from 0.                *)

\* The first of the indexes found, as an Option: the loops over the collection
\* return at the first object under the cursor.
FirstIndex(found) ==
    IF found = {} THEN None
    ELSE Some(CHOOSE k \in found : \A m \in found : k <= m)

\* pub fn object_at_cursor_index
object_at_cursor_index(collection, mouse_x, mouse_y) ==
    LET At(o) == /\ Abs(mouse_x - o.pos_x) < OBJC_MOUSE_EPSILON + OBJD_CIRCLE_RADIUS
                 /\ Abs(mouse_y - o.pos_y) < OBJC_MOUSE_EPSILON + OBJD_CIRCLE_RADIUS
    IN  FirstIndex({k \in DOMAIN collection : At(collection[k])})

\* pub fn object_at_cursor_type
object_at_cursor_type(collection, mouse_x, mouse_y, specify) ==
    LET At(o) == /\ Abs(mouse_x - o.pos_x) < OBJC_MOUSE_EPSILON + o.radius
                 /\ Abs(mouse_y - o.pos_y) < OBJC_MOUSE_EPSILON + o.radius
        found == FirstIndex({k \in DOMAIN collection : At(collection[k])})
    IN  IF ~found.some THEN "None"
        ELSE LET object == collection[found.v]
             IN  CASE object.kind = "ObjectCircle" -> "ObjectCircle"
                   [] object.kind = "AbsorberPerfect" ->
                        IF specify THEN "Perfect" ELSE "Absorber"
                   [] object.kind = "EmitterIsotropic" ->
                        IF specify THEN "Isotropic" ELSE "Emitter"
                   [] object.kind = "EmitterCollimated" ->
                        IF specify THEN "Collimated" ELSE "Emitter"
                   [] object.kind = "EmitterSpotlight" ->
                        IF specify THEN "Spotlight" ELSE "Emitter"

\* A mutant of remove_object_at_index: the last object goes instead of the
\* one at the index.
remove_object_at_index_Last(collection, index) ==
    IF index <= Len(collection) THEN SubSeq(collection, 1, Len(collection) - 1)
    ELSE collection

\* pub fn remove_object_at_index
remove_object_at_index(collection, index) ==
    IF index <= Len(collection)
    THEN [k \in 1..(Len(collection) - 1) |->
            IF k < index THEN collection[k] ELSE collection[k + 1]]
    ELSE collection

\* pub fn object_change_size
object_change_size(collection, mouse_x, mouse_y, change_factor) ==
    LET object_index == object_at_cursor_index(collection, mouse_x, mouse_y)
    IN  IF object_index.some
        THEN LET object == collection[object_index.v]
             IN  [collection EXCEPT ![object_index.v] =
                    CASE object.kind = "ObjectCircle" ->
                            ObjectCircle_change_radius(object, change_factor)
                      [] object.kind = "AbsorberPerfect" ->
                            Absorbers_change_radius(object, change_factor)
                      [] OTHER -> Emitters_change_radius(object, change_factor)]
        ELSE collection

\* pub fn object_change_orientation
object_change_orientation(collection, mouse_x, mouse_y, change_factor) ==
    LET object_index == object_at_cursor_index(collection, mouse_x, mouse_y)
    IN  IF object_index.some /\ IsEmitter(collection[object_index.v])
        THEN [collection EXCEPT ![object_index.v] =
                Emitters_change_orientation(collection[object_index.v], change_factor)]
        ELSE collection

---------------------------------------------------------------------------
(* Bounds of the generator calls *)

\* The largest ray count a generator is called with.
MaxGenRays == 33

\* Window extents screen_width() x screen_height() (the window is resizable).
ScreenSizes == {<<60, 80>>, <<80, 80>>}

\* Emitter positions the generators are called with.
GenPositions == {<<30, 40>>, <<0, 0>>, <<10, 10>>}

GenOrientations == {0, PI \div 6, HALF_PI, PI}

GenDiameters == {12, 60, OBJD_COLLIMATED_BEAM_DIAMETER}

GenBeamAngles == {OBJD_SPOTLIGHT_BEAM_ANGLE, PI}

IsotropicCalls ==
    {[fn |-> "init_isotropic_rays", start_x |-> p[1], start_y |-> p[2], ray_count |-> n] :
        p \in GenPositions, n \in OBJC_MIN_RAY_COUNT..MaxGenRays}

CollimatedCalls ==
    {[fn |-> "init_collimated_rays", start_x |-> p[1], start_y |-> p[2],
      orientation |-> o, collimated_beam_diameter |-> d, ray_count |-> n] :
        p \in GenPositions, o \in GenOrientations, d \in GenDiameters, n \in 2..MaxGenRays}

SpotlightCalls ==
    {[fn |-> "init_spotlight_rays", start_x |-> p[1], start_y |-> p[2],
      orientation |-> o, spotlight_beam_angle |-> b, ray_count |-> n] :
        p \in GenPositions, o \in GenOrientations, b \in GenBeamAngles, n \in 2..MaxGenRays}

---------------------------------------------------------------------------
(* The generators as pure functions: a call is drawn, then applied. *)

\* The loop's locals and the store before the loop's first iteration (main.rs 70-78).
LoopIdle ==
    /\ store = <<>>
    /\ collection_size = 0
    /\ re_init_rays = FALSE
    /\ cursor_on_object_index = None
    /\ cursor_is_moving_object = FALSE
    /\ mouse_delta = FALSE
    /\ log = ""
    /\ last = [op |-> "none"]

InitGen ==
    /\ LoopIdle
    /\ screen \in ScreenSizes
    /\ call \in IsotropicCalls \cup CollimatedCalls \cup SpotlightCalls
    /\ ret = None

CallIsotropic ==
    /\ ~ret.some
    /\ call.fn = "init_isotropic_rays"
    /\ ret' = Some(init_isotropic_rays(call.start_x, call.start_y, call.ray_count))
    /\ UNCHANGED <<store, screen, collection_size, re_init_rays, cursor_on_object_index,
                   cursor_is_moving_object, mouse_delta, log, last, call>>

CallCollimated ==
    /\ ~ret.some
    /\ call.fn = "init_collimated_rays"
    /\ ret' = Some(init_collimated_rays(call.start_x, call.start_y, call.orientation,
                                        call.collimated_beam_diameter, call.ray_count))
    /\ UNCHANGED <<store, screen, collection_size, re_init_rays, cursor_on_object_index,
                   cursor_is_moving_object, mouse_delta, log, last, call>>

CallSpotlight ==
    /\ ~ret.some
    /\ call.fn = "init_spotlight_rays"
    /\ ret' = Some(init_spotlight_rays(call.start_x, call.start_y, call.orientation,
                                       call.spotlight_beam_angle, call.ray_count))
    /\ UNCHANGED <<store, screen, collection_size, re_init_rays, cursor_on_object_index,
                   cursor_is_moving_object, mouse_delta, log, last, call>>

NextGen == CallIsotropic \/ CallCollimated \/ CallSpotlight

SpecGen == InitGen /\ [][NextGen]_vars

---------------------------------------------------------------------------
(* Claims about the generators *)

\* The ray runs from its start in the direction of `angle` on the canvas, to
\* within the rounding of its end to a whole pixel.
PointsAlong(ray, angle) ==
    LET dx == ray.end_x - ray.start_x
        dy == ray.end_y - ray.start_y
    IN  /\ Abs(dx * Sin(angle) - dy * Cos(angle)) <= FP
        /\ dx * Cos(angle) + dy * Sin(angle) > 0

\* C9: for every n >= 3 and position (x, y) the isotropic generator yields
\* exactly n rays that all start at (x, y) and whose direction on the canvas,
\* from start to end, is the angle 2*pi*i/n for ray i: uniformly spaced by
\* 2*pi/n over a full turn.
C9_IsotropicUniform ==
    (ret.some /\ call.fn = "init_isotropic_rays") =>
        /\ Len(ret.v) = call.ray_count
        /\ \A k \in 1..Len(ret.v) :
              /\ ret.v[k].start_x = call.start_x
              /\ ret.v[k].start_y = call.start_y
              /\ PointsAlong(ret.v[k], RoundDiv((k - 1) * TWO_PI, call.ray_count))

\* The start points of a collimated call are whole pixels as computed when the
\* spacing diameter/(n-1) is a whole number of pixels and the beam lies along an
\* axis; otherwise two starts are each rounded to a pixel.
SpreadTol(c) ==
    IF /\ c.collimated_beam_diameter % (c.ray_count - 1) = 0
       /\ c.orientation \in {0, HALF_PI, PI}
    THEN 0
    ELSE 2 * (c.ray_count - 1) * FP

\* C10: for every n >= 2 and diameter > 0 the collimated generator yields
\* exactly n rays with equal direction vectors (end minus start), whose start
\* points lie on the perpendicular axis (-sin o, cos o) evenly spaced by
\* diameter/(n-1): ray k starts k * diameter/(n-1) from ray 0 (exactly when the
\* spacing is a whole number of pixels along an axis, to within the rounding of
\* the two starts otherwise), so the first and the last start are exactly the
\* diameter apart.
C10_CollimatedParallelSpread ==
    (ret.some /\ call.fn = "init_collimated_rays") =>
        LET rays == ret.v
            n == call.ray_count
            d == call.collimated_beam_diameter
            perp_x == -Sin(call.orientation)
            perp_y == Cos(call.orientation)
        IN  /\ Len(rays) = n
            /\ \A k \in 1..Len(rays) :
                  /\ rays[k].end_x - rays[k].start_x = rays[1].end_x - rays[1].start_x
                  /\ rays[k].end_y - rays[k].start_y = rays[1].end_y - rays[1].start_y
                  /\ Abs((n - 1) * FP * (rays[k].start_x - rays[1].start_x)
                         - (k - 1) * d * perp_x) <= SpreadTol(call)
                  /\ Abs((n - 1) * FP * (rays[k].start_y - rays[1].start_y)
                         - (k - 1) * d * perp_y) <= SpreadTol(call)

\* C10 witness: the collimated generator returned an even number of rays (26)
\* for the default diameter along the x axis, spaced by 4 pixels, the last one
\* a diameter away from the first.
C10_Witness ==
    /\ ret.some
    /\ call.fn = "init_collimated_rays"
    /\ call.ray_count = 26
    /\ call.collimated_beam_diameter = OBJD_COLLIMATED_BEAM_DIAMETER
    /\ call.orientation = 0
    /\ ret.v[2].start_y - ret.v[1].start_y = 4
    /\ ret.v[26].start_y - ret.v[1].start_y = OBJD_COLLIMATED_BEAM_DIAMETER

\* The ray mirrored in the horizontal line through its start: init_spotlight_rays
\* measures its angles with the y axis pointing up the screen.
Mirrored(ray) == [ray EXCEPT !.end_y = 2 * ray.start_y - ray.end_y]

\* C11: for every n >= 2 the spotlight generator yields exactly n rays that all
\* start at the emitter position, and ray k of 0..n-1 runs on the canvas along
\* the angle (orientation - beam_angle/2) + k * beam_angle/(n-1), measured as
\* the generator measures it: linearly spaced, the first ray at the lower
\* extreme and the last at the upper extreme of the beam.
C11_SpotlightLinearFan ==
    (ret.some /\ call.fn = "init_spotlight_rays") =>
        LET n == call.ray_count
            lower == call.orientation - RoundDiv(call.spotlight_beam_angle, 2)
        IN  /\ Len(ret.v) = n
            /\ \A k \in 1..Len(ret.v) :
                  /\ ret.v[k].start_x = call.start_x
                  /\ ret.v[k].start_y = call.start_y
                  /\ PointsAlong(Mirrored(ret.v[k]),
                                 lower + RoundDiv((k - 1) * call.spotlight_beam_angle, n - 1))

\* The angle the generator of the call computes ray k of 1..n for.
RayAngle(c, k) ==
    CASE c.fn = "init_isotropic_rays" -> RoundDiv((k - 1) * TWO_PI, c.ray_count)
      [] c.fn = "init_collimated_rays" -> c.orientation
      [] c.fn = "init_spotlight_rays" ->
            c.orientation - RoundDiv(c.spotlight_beam_angle, 2)
                + RoundDiv((k - 1) * c.spotlight_beam_angle, c.ray_count - 1)

\* The point lies strictly inside the visible canvas.
InsideCanvas(x, y) == 0 < x /\ x < screen_width /\ 0 < y /\ y < screen_height

\* The end of every ray lies along the ray's angle from its start (the
\* spotlight's angles measured as that generator measures them).
C12_EndAlongDirection ==
    ret.some =>
        \A k \in 1..Len(ret.v) :
            PointsAlong(IF call.fn = "init_spotlight_rays" THEN Mirrored(ret.v[k])
                        ELSE ret.v[k],
                        RayAngle(call, k))

\* Every ray that starts strictly inside the canvas ends on its edge or
\* outside it.
C12_SegmentReachesEdge ==
    ret.some =>
        \A k \in 1..Len(ret.v) :
            InsideCanvas(ret.v[k].start_x, ret.v[k].start_y)
                => ~InsideCanvas(ret.v[k].end_x, ret.v[k].end_y)

\* C12: for every emitter position on the canvas and every ray direction the
\* end of a generated ray lies along the ray's direction (cos(angle),
\* sin(angle)) from its start, and far enough away that the segment from start
\* to end reaches or crosses the edge of the visible canvas.
C12_EndBeyondCanvasAlongDirection == C12_EndAlongDirection /\ C12_SegmentReachesEdge


---------------------------------------------------------------------------
(* The ray-count operations on one emitter: created as main.rs creates it,  *)
(* then changed by change_rays_count, move_object and init_all_rays.        *)

MaxRays == 102

RayDeltas == {-2, -1, 1, 2}

EmitPositions == {<<30, 40>>, <<10, 20>>}

EmitterTypes == {"emitter_isotropic", "emitter_collimated", "emitter_spotlight"}

InitEmit ==
    /\ LoopIdle
    /\ screen \in ScreenSizes
    /\ call = [fn |-> "none"]
    /\ ret = None

EmitCreate(object_type, pos) ==
    /\ store = <<>>
    /\ store' = add_object_to_scene(store, object_type, pos[1], pos[2])
    /\ collection_size' = collection_size + 1
    /\ log' = ""
    /\ last' = [op |-> "add_object_to_scene", object_type |-> object_type]
    /\ UNCHANGED <<screen, re_init_rays, cursor_on_object_index,
                   cursor_is_moving_object, mouse_delta, call, ret>>

EmitChangeRaysCount(index, change_rays) ==
    /\ index \in DOMAIN store
    /\ IsEmitter(store[index])
    /\ Len(store[index].rays) + change_rays <= MaxRays
    /\ LET r == Emitters_change_rays_count(store[index], change_rays)
       IN  /\ store' = [store EXCEPT ![index] = r.o]
           /\ log' = r.log
    /\ last' = [op |-> "change_rays_count", index |-> index, change_rays |-> change_rays]
    /\ UNCHANGED <<screen, collection_size, re_init_rays, cursor_on_object_index,
                   cursor_is_moving_object, mouse_delta, call, ret>>

EmitMoveObject(index, pos) ==
    /\ index \in DOMAIN store
    /\ IsEmitter(store[index])
    /\ store' = [store EXCEPT ![index] = Emitters_move_object(store[index], pos[1], pos[2])]
    /\ log' = ""
    /\ last' = [op |-> "move_object", index |-> index]
    /\ UNCHANGED <<screen, collection_size, re_init_rays, cursor_on_object_index,
                   cursor_is_moving_object, mouse_delta, call, ret>>

EmitInitAllRays ==
    /\ store # <<>>
    /\ store' = init_all_rays(store)
    /\ log' = ""
    /\ last' = [op |-> "init_all_rays"]
    /\ UNCHANGED <<screen, collection_size, re_init_rays, cursor_on_object_index,
                   cursor_is_moving_object, mouse_delta, call, ret>>

NextEmit ==
    \/ \E object_type \in EmitterTypes, pos \in EmitPositions : EmitCreate(object_type, pos)
    \/ \E index \in DOMAIN store, change_rays \in RayDeltas :
            EmitChangeRaysCount(index, change_rays)
    \/ \E index \in DOMAIN store, pos \in EmitPositions : EmitMoveObject(index, pos)
    \/ EmitInitAllRays

SpecEmit == InitEmit /\ [][NextEmit]_vars

\* C2 as stated: every emitter's ray count stays within
\* [OBJC_MIN_RAY_COUNT, OBJC_MAX_RAY_COUNT] under change_rays_count,
\* move_object and init_all_rays.
C2_RayCountInRange ==
    \A i \in DOMAIN store :
        IsEmitter(store[i]) =>
            /\ Len(store[i].rays) >= OBJC_MIN_RAY_COUNT
            /\ Len(store[i].rays) <= OBJC_MAX_RAY_COUNT

\* C2 amended: every emitter's ray count stays at or above OBJC_MIN_RAY_COUNT
\* under change_rays_count, move_object and init_all_rays (the upper limit
\* OBJC_MAX_RAY_COUNT is not part of the invariant).
C2_RayCountAtLeastMin ==
    \A i \in DOMAIN store :
        IsEmitter(store[i]) => Len(store[i].rays) >= OBJC_MIN_RAY_COUNT

\* An emitter at the minimum count after its rays were regenerated by a move.
C2_Witness ==
    /\ store # <<>>
    /\ Len(store[1].rays) = OBJC_MIN_RAY_COUNT
    /\ last.op = "move_object"

\* C3: change_rays_count(change_rays) on an emitter of any kind whose count
\* plus change_rays is below OBJC_MIN_RAY_COUNT leaves the emitter (its rays
\* included) unchanged and prints the below-minimum error.
C3_BelowMinRejected ==
    [][(/\ last'.op = "change_rays_count"
        /\ Len(store[last'.index].rays) + last'.change_rays < OBJC_MIN_RAY_COUNT)
       => (store' = store /\ log' = MSG_BELOW_MIN)]_vars

\* A spotlight emitter one above the minimum whose decrement by two was refused.
C3_Witness ==
    /\ store # <<>>
    /\ store[1].kind = "EmitterSpotlight"
    /\ Len(store[1].rays) = OBJC_MIN_RAY_COUNT + 1
    /\ last = [op |-> "change_rays_count", index |-> 1, change_rays |-> -2]
    /\ log = MSG_BELOW_MIN

\* C4: change_rays_count(change_rays) whose result exceeds OBJC_MAX_RAY_COUNT
\* is applied: the emitter then has count + change_rays rays at its unchanged
\* position, and the too-many-rays warning is printed.
C4_AboveMaxApplied ==
    [][(/\ last'.op = "change_rays_count"
        /\ Len(store[last'.index].rays) + last'.change_rays > OBJC_MAX_RAY_COUNT)
       => (/\ Len(store'[last'.index].rays)
                = Len(store[last'.index].rays) + last'.change_rays
           /\ store'[last'.index].pos_x = store[last'.index].pos_x
           /\ store'[last'.index].pos_y = store[last'.index].pos_y
           /\ log' = MSG_TOO_MANY_RAYS)]_vars

\* A collimated emitter that an increment took from the maximum to one above it.
C4_Witness ==
    /\ store # <<>>
    /\ store[1].kind = "EmitterCollimated"
    /\ Len(store[1].rays) = OBJC_MAX_RAY_COUNT + 1
    /\ last = [op |-> "change_rays_count", index |-> 1, change_rays |-> 1]
    /\ log = MSG_TOO_MANY_RAYS


---------------------------------------------------------------------------
(* occlusion as a pure function: an absorber and a ray are drawn, then it   *)
(* is applied.  The calls drawn are those whose geometry is exact on the    *)
(* pixel grid: the discriminant is a perfect square and both solutions fall *)
(* on whole pixels, so no rounding enters the result.                       *)

OcclStart == <<30, 40>>

\* Ray ends: the four rays of an isotropic emitter on a 60 x 80 window, rays
\* already shortened, a ray of no length, and two slanted rays.
OcclEnds ==
    {<<90, 40>>, <<30, 120>>, <<-30, 40>>, <<30, -40>>, <<40, 40>>, <<30, 45>>,
     <<30, 40>>, <<60, 80>>, <<33, 44>>}

OcclRays == {ObjectRay(OcclStart[1], OcclStart[2], e[1], e[2]) : e \in OcclEnds}

MaxOcclX == 100

MaxOcclY == 50

OcclRadii == {5, 10, OBJD_CIRCLE_RADIUS}

OcclAbsorbers ==
    {AbsorberPerfect(x, y, r) : x \in 20..MaxOcclX, y \in 34..MaxOcclY,
                                r \in OcclRadii}

\* No f32 rounding enters occlusion(occluder, ray).
ExactGeometry(occluder, ray) ==
    LET q == Quadratic(occluder, ray)
        s == FloorSqrt(q.discriminant)
    IN  \/ q.discriminant < 0
        \/ q.a = 0
        \/ /\ s * s = q.discriminant
           /\ \A sign \in {-1, 1}, k \in {1, 2} :
                ((-q.b + sign * s) * q.slope[k]) % (2 * q.a) = 0

OcclusionCalls ==
    {[fn |-> "occlusion", occluder |-> o, ray |-> r] :
        <<o, r>> \in {pair \in OcclAbsorbers \X OcclRays : ExactGeometry(pair[1], pair[2])}}

InitOccl ==
    /\ LoopIdle
    /\ screen = <<60, 80>>
    /\ call \in OcclusionCalls
    /\ ret = None

CallOcclusion ==
    /\ ~ret.some
    /\ call.fn = "occlusion"
    /\ ret' = Some(occlusion(call.occluder, call.ray))
    /\ UNCHANGED <<store, screen, collection_size, re_init_rays, cursor_on_object_index,
                   cursor_is_moving_object, mouse_delta, log, last, call>>

NextOccl == CallOcclusion

SpecOccl == InitOccl /\ [][NextOccl]_vars

\* The closed disk of the occluder and the closed segment of the ray share a point.
DiskMeetsSegment(occluder, ray) ==
    LET q == Quadratic(occluder, ray)
    IN  IF q.a = 0 \/ q.b >= 0 THEN q.c <= 0
        ELSE IF -q.b >= 2 * q.a THEN q.a + q.b + q.c <= 0
        ELSE q.discriminant >= 0

\* The boundary circle of the occluder meets the segment of the ray at a
\* point after the start: a t * t + b t + c has a root t with 0 < t <= 1.
BoundaryMetAfterStart(occluder, ray) ==
    LET q == Quadratic(occluder, ray)
    IN  /\ q.a > 0
        /\ IF q.c > 0
           THEN \/ q.a + q.b + q.c <= 0
                \/ q.discriminant >= 0 /\ q.b < 0 /\ -q.b < 2 * q.a
           ELSE IF q.c = 0 THEN q.b < 0 /\ -q.b <= q.a
           ELSE q.a + q.b + q.c >= 0

\* p lies on the boundary circle of the occluder.
OnBoundary(p, occluder) ==
    (p[1] - occluder.pos_x) * (p[1] - occluder.pos_x)
    + (p[2] - occluder.pos_y) * (p[2] - occluder.pos_y)
    = occluder.radius * occluder.radius

\* p lies on the segment of the ray, after its start.
OnSegmentAfterStart(p, ray) ==
    LET dx == ray.end_x - ray.start_x
        dy == ray.end_y - ray.start_y
        along == (p[1] - ray.start_x) * dx + (p[2] - ray.start_y) * dy
    IN  /\ (p[1] - ray.start_x) * dy = (p[2] - ray.start_y) * dx
        /\ 0 < along
        /\ along <= dx * dx + dy * dy

\* p is not beyond the middle of the chord, so of two crossings it is the first.
FirstCrossing(p, occluder, ray) ==
    LET q == Quadratic(occluder, ray)
    IN  q.c > 0 =>
            2 * ((p[1] - ray.start_x) * q.slope[1] + (p[2] - ray.start_y) * q.slope[2])
                <= -q.b

\* C7 as stated: occlusion returns None when the absorber's disk does not
\* intersect the ray's segment, and a point on the disk boundary whenever the
\* disk intersects the segment (a start inside the disk and a segment wholly
\* inside the disk included).
C7_HitIffDiskMeetsSegment ==
    ret.some =>
        IF DiskMeetsSegment(call.occluder, call.ray)
        THEN ret.v.some /\ OnBoundary(ret.v.v, call.occluder)
        ELSE ~ret.v.some

\* C7 amended: occlusion returns a point exactly when the absorber's boundary
\* circle meets the ray's segment after its start; the point is then the first
\* such point of the segment, on the boundary (for a ray starting strictly
\* inside the disk, the point where it leaves).  Otherwise, and so when the
\* disk misses the segment, when the whole segment is strictly inside the
\* disk, or when the ray has no length, it returns None.
C7_HitIffBoundaryMetAfterStart ==
    ret.some =>
        /\ ret.v.some <=> BoundaryMetAfterStart(call.occluder, call.ray)
        /\ ret.v.some =>
            /\ OnBoundary(ret.v.v, call.occluder)
            /\ OnSegmentAfterStart(ret.v.v, call.ray)
            /\ FirstCrossing(ret.v.v, call.occluder, call.ray)
        /\ ~DiskMeetsSegment(call.occluder, call.ray) => ~ret.v.some

\* A ray that starts strictly inside the disk and leaves it: the exit point
\* was returned.
C7_Witness ==
    /\ ret.some
    /\ ret.v.some
    /\ Quadratic(call.occluder, call.ray).c < 0
    /\ OnBoundary(ret.v.v, call.occluder)


---------------------------------------------------------------------------
(* The occlusion pass over a scene.  The scenes are sequences of objects    *)
(* the program can hold after creations, ray-count changes and resizes:     *)
(* isotropic emitters with four rays (all along the axes), absorbers and a  *)
(* plain circle, placed so that every crossing falls on a whole pixel.      *)

OccScreen == <<60, 80>>

OccObjects ==
    {EmitterIsotropic(30, 40, OBJD_CIRCLE_RADIUS, init_isotropic_rays(30, 40, 4)),
     EmitterIsotropic(40, 40, OBJD_CIRCLE_RADIUS, init_isotropic_rays(40, 40, 4)),
     AbsorberPerfect(50, 40, 5),
     AbsorberPerfect(57, 40, 5),
     AbsorberPerfect(30, 60, 10),
     AbsorberPerfect(60, 43, 5),
     AbsorberPerfect(70, 40, OBJD_CIRCLE_RADIUS),
     AbsorberPerfect(35, 40, 5),
     ObjectCircle(40, 40, 5)}

MaxSceneLen == 3

MaxPasses == 3

\* The sequences of distinct objects, up to MaxSceneLen long.
OccScenes ==
    {scene \in UNION {[1..n -> OccObjects] : n \in 1..MaxSceneLen} :
        \A i, j \in DOMAIN scene : i # j => scene[i] # scene[j]}

InitOcc ==
    /\ screen = OccScreen
    /\ store \in OccScenes
    /\ collection_size = Len(store)
    /\ re_init_rays = FALSE
    /\ cursor_on_object_index = None
    /\ cursor_is_moving_object = FALSE
    /\ mouse_delta = FALSE
    /\ log = ""
    /\ last = [op |-> "none", pass |-> 0]
    /\ call = [fn |-> "none"]
    /\ ret = None

OccCheckForOcclusion ==
    /\ last.pass < MaxPasses
    /\ store' = check_for_occlusion(store)
    /\ last' = [op |-> "check_for_occlusion", pass |-> last.pass + 1]
    /\ UNCHANGED <<screen, collection_size, re_init_rays, cursor_on_object_index,
                   cursor_is_moving_object, mouse_delta, log, call, ret>>

OccInitAllRays ==
    /\ last.pass > 0
    /\ store' = init_all_rays(store)
    /\ last' = [op |-> "init_all_rays", pass |-> 0]
    /\ UNCHANGED <<screen, collection_size, re_init_rays, cursor_on_object_index,
                   cursor_is_moving_object, mouse_delta, log, call, ret>>

NextOcc == OccCheckForOcclusion \/ OccInitAllRays

SpecOcc == InitOcc /\ [][NextOcc]_vars


\* The absorbers of a collection, as a set.
AbsorbersOf(collection) ==
    {collection[k] : k \in {k \in DOMAIN collection : collection[k].kind = "AbsorberPerfect"}}

\* The whole pixels of the ray's segment after its start that lie on the
\* boundary of an absorber of the set.
Crossings(ray, absorbers) ==
    LET xs == {ray.start_x, ray.end_x}
        ys == {ray.start_y, ray.end_y}
        lo(S) == CHOOSE m \in S : \A n \in S : m <= n
        hi(S) == CHOOSE m \in S : \A n \in S : m >= n
    IN  {p \in (lo(xs)..hi(xs)) \X (lo(ys)..hi(ys)) :
            /\ OnSegmentAfterStart(p, ray)
            /\ \E o \in absorbers : OnBoundary(p, o)}

SquaredDistance(ray, p) ==
    (p[1] - ray.start_x) * (p[1] - ray.start_x) + (p[2] - ray.start_y) * (p[2] - ray.start_y)

\* The crossing nearest to the ray's start, or the ray's end when there is none.
NearestCrossing(ray, absorbers) ==
    LET P == Crossings(ray, absorbers)
    IN  IF P = {} THEN <<ray.end_x, ray.end_y>>
        ELSE CHOOSE p \in P : \A q \in P : SquaredDistance(ray, p) <= SquaredDistance(ray, q)

\* The rays each emitter of the collection holds.
RaysOf(collection) ==
    [k \in DOMAIN collection |->
        IF collection[k].kind \in EmitterKinds THEN collection[k].rays ELSE <<>>]

\* C5: after check_for_occlusion on freshly generated rays, every ray keeps
\* its start and ends at the nearest crossing of an absorber's boundary
\* (at its generated end when it crosses none), and the pass gives every
\* emitter the same rays for every ordering of the objects in the store.
C5_NearestCrossingAnyOrder ==
    (last.op = "check_for_occlusion" /\ last.pass = 1) =>
        LET fresh == init_all_rays(store)
        IN  /\ \A i \in DOMAIN store :
                store[i].kind \in EmitterKinds =>
                    /\ Len(store[i].rays) = Len(fresh[i].rays)
                    /\ \A j \in DOMAIN store[i].rays :
                        /\ store[i].rays[j].start_x = fresh[i].rays[j].start_x
                        /\ store[i].rays[j].start_y = fresh[i].rays[j].start_y
                        /\ <<store[i].rays[j].end_x, store[i].rays[j].end_y>>
                             = NearestCrossing(fresh[i].rays[j], AbsorbersOf(store))
            /\ \A perm \in Permutations(DOMAIN store) :
                LET shuffled == [k \in DOMAIN store |-> fresh[perm[k]]]
                IN  RaysOf(check_for_occlusion(shuffled))
                        = [k \in DOMAIN store |-> RaysOf(store)[perm[k]]]

\* A ray crossing two absorbers ends at the crossing of the one later in the
\* store, nearer than the crossing of the earlier one.
C5_Witness ==
    /\ last.op = "check_for_occlusion"
    /\ last.pass = 1
    /\ \E i \in DOMAIN store : \E k, l \in DOMAIN store :
        /\ store[i].kind \in EmitterKinds
        /\ k < l
        /\ store[k].kind = "AbsorberPerfect"
        /\ store[l].kind = "AbsorberPerfect"
        /\ \E j \in DOMAIN store[i].rays :
            LET fresh_ray == init_all_rays(store)[i].rays[j]
                hit_k == occlusion(store[k], fresh_ray)
                hit_l == occlusion(store[l], fresh_ray)
            IN  /\ hit_k.some
                /\ hit_l.some
                /\ hit_k.v # hit_l.v
                /\ <<store[i].rays[j].end_x, store[i].rays[j].end_y>> = hit_l.v

\* C6: a check_for_occlusion that directly follows a check_for_occlusion
\* leaves the store, and so every ray's start and end, as it found it.
C6_SecondPassChangesNothing ==
    [][(last'.op = "check_for_occlusion" /\ last'.pass >= 2) => store' = store]_vars

\* After the second pass over a scene in which the first pass shortened a ray
\* that crosses two absorbers.
C6_Witness ==
    /\ last.op = "check_for_occlusion"
    /\ last.pass = 2
    /\ \E i \in DOMAIN store :
        /\ store[i].kind \in EmitterKinds
        /\ \E j \in DOMAIN store[i].rays :
            /\ store[i].rays[j] # init_all_rays(store)[i].rays[j]
            /\ Cardinality({o \in AbsorbersOf(store) :
                    occlusion(o, init_all_rays(store)[i].rays[j]).some}) >= 2

\* The ways a plain circle or another emitter is displaced and resized.
Displacements == {<<5, 0, 5>>, <<-10, 3, -2>>, <<15, -3, 10>>}

\* The collection with every plain circle, and every emitter but the one at
\* index, displaced and resized by d.
Displaced(collection, index, d) ==
    [k \in DOMAIN collection |->
        IF k # index /\ collection[k].kind # "AbsorberPerfect"
        THEN [collection[k] EXCEPT !.pos_x = @ + d[1], !.pos_y = @ + d[2],
                                   !.radius = @ + d[3]]
        ELSE collection[k]]

\* C8: check_for_occlusion changes nothing but ray ends; with no absorber in
\* the store it changes nothing at all; and the rays it leaves an emitter are
\* those it leaves when the plain circles and the other emitters are placed
\* and sized differently.
C8_OnlyAbsorbersOcclude ==
    [][last'.op = "check_for_occlusion" =>
        /\ DOMAIN store' = DOMAIN store
        /\ AbsorbersOf(store) = {} => store' = store
        /\ \A i \in DOMAIN store :
            IF store[i].kind \in EmitterKinds
            THEN /\ [store'[i] EXCEPT !.rays = store[i].rays] = store[i]
                 /\ \A d \in Displacements :
                        check_for_occlusion(Displaced(store, i, d))[i].rays = store'[i].rays
            ELSE store'[i] = store[i]]_vars

\* After a pass over a scene with an absorber and a plain circle, the disk of
\* the circle lying across a ray that still reaches beyond it.
C8_Witness ==
    /\ last.op = "check_for_occlusion"
    /\ AbsorbersOf(store) # {}
    /\ \E i, k \in DOMAIN store :
        /\ store[i].kind \in EmitterKinds
        /\ store[k].kind = "ObjectCircle"
        /\ \E j \in DOMAIN store[i].rays :
            /\ DiskMeetsSegment(store[k], store[i].rays[j])
            /\ BoundaryMetAfterStart(store[k], store[i].rays[j])


---------------------------------------------------------------------------
(* main.rs: the control loop.  One step is one iteration: the key handling, *)
(* the pointer handling, the refresh of the rays, the new mouse_delta.      *)

\* The creation keys and the object_type each passes to add_object_to_scene.
ObjectTypeOfKey ==
    [KEYB_SIMPLE_CIRCLE |-> "circle_none",
     KEYB_EMITTER_ISOTROPIC |-> "emitter_isotropic",
     KEYB_EMITTER_COLLIMATED |-> "emitter_collimated",
     KEYB_EMITTER_SPOTLIGHT |-> "emitter_spotlight",
     KEYB_ABSORBER_PERFECT |-> "absorber_perfect"]

CreationKeys == DOMAIN ObjectTypeOfKey

RayCountKeys == {"KEYB_EMM_INC_RAYS", "KEYB_EMM_DEC_RAYS"}

ResizeKeys == {"KEYB_RTC_ENLARGE", "KEYB_RTC_SHRINK"}

OrientationKeys == {"KEYB_RTC_INC_ORIENTATION", "KEYB_RTC_DEC_ORIENTATION"}

SecondaryKeys == {"KEYB_EMM_SEC_INC", "KEYB_EMM_SEC_DEC"}

\* The steps by which the secondary-trait keys change a collimated emitter's
\* beam diameter (pixels) and a spotlight's beam angle.  globals.rs does not
\* define these two or the orientation step below; the values are the model's.
KEYB_EMM_SEC_COLL_WIDTH_DELTA == 2 * OBJD_ENLARGE_REDUCE_FACTOR

KEYB_EMM_SEC_SPOT_ANGLE_DELTA == PI \div 6

\* The step by which the orientation keys turn an emitter.
OBJD_ORIENTATION_DELTA_FACTOR == HALF_PI

MSG_TOO_MANY_OBJECTS == "Raytracer Err: Too many RaytracerObjects in the scene"

\* A mutant of the cap guard: a creation is still let through at the cap.
UnderCap_Inclusive(size) == OBJC_MAX_OBJ_COUNT >= size

\* if OBJC_MAX_OBJ_COUNT as usize > collection_size
UnderCap(size) == OBJC_MAX_OBJ_COUNT > size

\* else if keybind_emitter_secondary_inc || keybind_emitter_secondary_dec
SecondaryTrait(l, key, mouse_x, mouse_y) ==
    LET cursor_on_object_type == object_at_cursor_type(l.store, mouse_x, mouse_y, TRUE)
        index == object_at_cursor_index(l.store, mouse_x, mouse_y)
        l1 == [l EXCEPT !.cursor_on_object_index = index]
        inc == key = "KEYB_EMM_SEC_INC"
    IN  IF ~index.some THEN l1
        ELSE LET o == l.store[index.v]
             IN  IF cursor_on_object_type = "Collimated" /\ o.kind = "EmitterCollimated"
                 THEN LET width_delta == IF inc THEN KEYB_EMM_SEC_COLL_WIDTH_DELTA
                                         ELSE -KEYB_EMM_SEC_COLL_WIDTH_DELTA
                      IN  IF o.collimated_beam_diameter + width_delta <= 0 /\ width_delta < 0
                          THEN l1
                          ELSE [l1 EXCEPT !.store[index.v].collimated_beam_diameter =
                                                @ + width_delta,
                                          !.re_init_rays = TRUE]
                 ELSE IF cursor_on_object_type = "Spotlight" /\ o.kind = "EmitterSpotlight"
                 THEN LET angle_delta == IF inc THEN KEYB_EMM_SEC_SPOT_ANGLE_DELTA
                                         ELSE -KEYB_EMM_SEC_SPOT_ANGLE_DELTA
                          new_angle == o.spotlight_beam_angle + angle_delta
                      IN  IF new_angle < 0 /\ angle_delta < 0 THEN l1
                          ELSE IF new_angle > TWO_PI /\ angle_delta > 0 THEN l1
                          ELSE [l1 EXCEPT !.store[index.v].spotlight_beam_angle = new_angle,
                                          !.re_init_rays = TRUE]
                 ELSE l1

\* The key handling of one iteration, on the record l of the loop's locals and
\* the store; the else branch of the cap guard prints the capacity error.  The
\* shift key, which multiplies a step, is not held.
KeyHandling(l, key, mouse_x, mouse_y) ==
    IF ~UnderCap(l.collection_size) THEN [l EXCEPT !.log = MSG_TOO_MANY_OBJECTS]
    ELSE
    CASE key \in CreationKeys ->
            [l EXCEPT !.store = add_object_to_scene(@, ObjectTypeOfKey[key], mouse_x, mouse_y),
                      !.re_init_rays = TRUE,
                      !.collection_size = @ + 1]
      [] key \in RayCountKeys ->
            LET cursor_on_object_type == object_at_cursor_type(l.store, mouse_x, mouse_y, FALSE)
                index == object_at_cursor_index(l.store, mouse_x, mouse_y)
                l1 == [l EXCEPT !.cursor_on_object_index = index]
            IN  IF cursor_on_object_type = "Emitter" /\ index.some
                   /\ IsEmitter(l.store[index.v])
                THEN LET ray_delta == IF key = "KEYB_EMM_INC_RAYS" THEN 1 ELSE -1
                         r == Emitters_change_rays_count(l.store[index.v], ray_delta)
                     IN  [l1 EXCEPT !.store = [@ EXCEPT ![index.v] = r.o],
                                    !.log = r.log,
                                    !.re_init_rays = TRUE]
                ELSE l1
      [] key \in SecondaryKeys -> SecondaryTrait(l, key, mouse_x, mouse_y)
      [] key \in ResizeKeys ->
            IF object_at_cursor_type(l.store, mouse_x, mouse_y, FALSE) # "None"
            THEN LET multiplier == IF key = "KEYB_RTC_ENLARGE" THEN 1 ELSE -1
                 IN  [l EXCEPT !.store = object_change_size(@, mouse_x, mouse_y,
                                            multiplier * OBJD_ENLARGE_REDUCE_FACTOR),
                               !.re_init_rays = TRUE]
            ELSE l
      [] key \in OrientationKeys ->
            IF object_at_cursor_type(l.store, mouse_x, mouse_y, FALSE) # "None"
            THEN LET delta == IF key = "KEYB_RTC_INC_ORIENTATION"
                              THEN OBJD_ORIENTATION_DELTA_FACTOR
                              ELSE -OBJD_ORIENTATION_DELTA_FACTOR
                 IN  [l EXCEPT !.store = object_change_orientation(@, mouse_x, mouse_y, delta),
                               !.re_init_rays = TRUE]
            ELSE l
      [] key = "KEYB_DELETE" ->
            LET i == object_at_cursor_index(l.store, mouse_x, mouse_y)
            IN  IF l.collection_size >= 1 /\ i.some
                THEN [l EXCEPT !.store = remove_object_at_index(@, i.v),
                               !.re_init_rays = TRUE,
                               !.collection_size = @ - 1]
                ELSE l
      [] OTHER -> l

\* match object { ... o.move_object(mouse_x, mouse_y) }
MoveObject(object, mouse_x, mouse_y) ==
    IF IsEmitter(object) THEN Emitters_move_object(object, mouse_x, mouse_y)
    ELSE ObjectCircle_move_object(object, mouse_x, mouse_y)

\* The draw calls a move makes: ObjectCircle::move_object ends with
\* self.draw_object(), and an absorber moves through its base circle; the
\* emitters' move_object draws nothing.
MoveObjectDraws(object, index) == IF IsEmitter(object) THEN <<>> ELSE <<index>>

\* The pointer handling up to the drag: picking and letting go.
PointerPicking(l, mouse_x, mouse_y, left_down) ==
    LET picked == object_at_cursor_index(l.store, mouse_x, mouse_y)
        l1 == IF left_down
              THEN [l EXCEPT !.cursor_on_object_index = picked,
                             !.cursor_is_moving_object = IF picked.some THEN TRUE ELSE @]
              ELSE l
    IN  IF ~left_down /\ l1.cursor_is_moving_object
        THEN [l1 EXCEPT !.cursor_is_moving_object = FALSE]
        ELSE l1

\* if mouse_delta != vec2(0.0, 0.0) && cursor_is_moving_object, with an index
\* that collection.get_mut finds.
PointerMoves(l, delta) ==
    /\ delta
    /\ l.cursor_is_moving_object
    /\ l.cursor_on_object_index.some
    /\ l.cursor_on_object_index.v \in DOMAIN l.store

\* The pointer handling of one iteration: picking, letting go, dragging.
PointerHandling(l, mouse_x, mouse_y, left_down, delta) ==
    LET l2 == PointerPicking(l, mouse_x, mouse_y, left_down)
        index == l2.cursor_on_object_index
    IN  IF PointerMoves(l2, delta)
        THEN [l2 EXCEPT !.store = [@ EXCEPT ![index.v] = MoveObject(@, mouse_x, mouse_y)],
                        !.re_init_rays = TRUE]
        ELSE l2

\* The draw calls the pointer handling of one iteration makes.
PointerDraws(l, mouse_x, mouse_y, left_down, delta) ==
    LET l2 == PointerPicking(l, mouse_x, mouse_y, left_down)
        index == l2.cursor_on_object_index
    IN  IF PointerMoves(l2, delta) THEN MoveObjectDraws(l2.store[index.v], index.v)
        ELSE <<>>

\* A mutant of the refresh: the rays are clipped again without being
\* generated again.
RefreshRays_ClipOnly(l) ==
    IF l.re_init_rays
    THEN [l EXCEPT !.store = check_for_occlusion(l.store), !.re_init_rays = FALSE]
    ELSE l

\* if re_init_rays { init_all_rays(); check_for_occlusion(); re_init_rays = false; }
RefreshRays(l) ==
    IF l.re_init_rays
    THEN LET fresh == init_all_rays(l.store)
         IN  [l EXCEPT !.store = check_for_occlusion(fresh), !.re_init_rays = FALSE]
    ELSE l

\* One iteration of the loop with the inputs of its frame: the three parts of
\* the body in order, each on the locals and the store the one before left.
Frame(key, mouse, left_down, moved) ==
    LET l0 == [store |-> store, collection_size |-> collection_size,
               re_init_rays |-> re_init_rays,
               cursor_on_object_index |-> cursor_on_object_index,
               cursor_is_moving_object |-> cursor_is_moving_object, log |-> ""]
    IN  \E l1 \in {KeyHandling(l0, key, mouse[1], mouse[2])} :
        \E l2 \in {PointerHandling(l1, mouse[1], mouse[2], left_down, mouse_delta)} :
        \E l3 \in {RefreshRays(l2)} :
            /\ store' = l3.store
            /\ collection_size' = l3.collection_size
            /\ re_init_rays' = l3.re_init_rays
            /\ cursor_on_object_index' = l3.cursor_on_object_index
            /\ cursor_is_moving_object' = l3.cursor_is_moving_object
            /\ log' = l3.log
            /\ mouse_delta' = moved
            /\ last' = [op |-> "frame", key |-> key, mouse |-> mouse]
            /\ UNCHANGED <<screen, call, ret>>

---------------------------------------------------------------------------
(* The loop's inputs and bounds *)

MainScreen == <<60, 80>>

MousePositions == {<<30, 40>>, <<60, 80>>}

\* A plain circle away from the mouse positions above; only a delete reaches it.
Filler == ObjectCircle(300, 300, OBJD_CIRCLE_RADIUS)

\* The stores the loop starts from: empty, and as OBJC_MAX_OBJ_COUNT - 1 and
\* OBJC_MAX_OBJ_COUNT creations of a plain circle leave it.
InitialStores ==
    {[k \in 1..n |-> Filler] : n \in {0, OBJC_MAX_OBJ_COUNT - 1, OBJC_MAX_OBJ_COUNT}}

MaxLive == 1

MaxEdits == 1

Live(collection) == Cardinality({k \in DOMAIN collection : collection[k] # Filler})

\* The number of key steps between value and the value an object is created with.
Steps(value, default, step) == Abs(value - default) \div step

\* The number of orientation steps between an orientation and zero, either way
\* round.
Turns(orientation) ==
    LET t == orientation \div OBJD_ORIENTATION_DELTA_FACTOR
        round == TWO_PI \div OBJD_ORIENTATION_DELTA_FACTOR
    IN  IF t < round - t THEN t ELSE round - t

\* The number of key steps that lead from a newly created object to o.
Edits(o) ==
    Steps(o.radius, OBJD_CIRCLE_RADIUS, OBJD_ENLARGE_REDUCE_FACTOR)
    + (IF IsEmitter(o) THEN Abs(Len(o.rays) - OBJD_RAY_COUNT) ELSE 0)
    + (IF o.kind = "EmitterCollimated"
       THEN Turns(o.orientation)
            + Steps(o.collimated_beam_diameter, OBJD_COLLIMATED_BEAM_DIAMETER,
                    KEYB_EMM_SEC_COLL_WIDTH_DELTA)
       ELSE 0)
    + (IF o.kind = "EmitterSpotlight"
       THEN Turns(o.orientation)
            + Steps(o.spotlight_beam_angle, OBJD_SPOTLIGHT_BEAM_ANGLE,
                    KEYB_EMM_SEC_SPOT_ANGLE_DELTA)
       ELSE 0)

\* The stores the model follows: at most MaxLive objects other than the
\* filler, each at most MaxEdits key steps from its creation, in a store that
\* is either small or within MaxLive + 1 of the cap.
WithinBounds(collection) ==
    /\ Live(collection) <= MaxLive
    /\ \/ Len(collection) <= MaxLive
       \/ Len(collection) >= OBJC_MAX_OBJ_COUNT - MaxLive - 1
    /\ \A k \in DOMAIN collection : Edits(collection[k]) <= MaxEdits

Init ==
    /\ screen = MainScreen
    /\ store \in InitialStores
    /\ collection_size = Len(store)
    /\ re_init_rays = FALSE
    /\ cursor_on_object_index = None
    /\ cursor_is_moving_object = FALSE
    /\ mouse_delta = FALSE
    /\ log = ""
    /\ last = [op |-> "none"]
    /\ call = [fn |-> "none"]
    /\ ret = None

\* One action per kind of input; every frame keeps the scene within the bounds
\* above.
FrameCreate(key, mouse) == Frame(key, mouse, FALSE, FALSE) /\ WithinBounds(store')

FrameRayCount(key, mouse) == Frame(key, mouse, FALSE, FALSE) /\ WithinBounds(store')

FrameResize(key, mouse) == Frame(key, mouse, FALSE, FALSE) /\ WithinBounds(store')

FrameOrientation(key, mouse) == Frame(key, mouse, FALSE, FALSE) /\ WithinBounds(store')

FrameSecondary(key, mouse) == Frame(key, mouse, FALSE, FALSE) /\ WithinBounds(store')

FrameDelete(mouse) == Frame("KEYB_DELETE", mouse, FALSE, FALSE) /\ WithinBounds(store')

FrameDebug(mouse) ==
    Frame("KEYB_DEBUG_SHOW_ALL_OBJ", mouse, FALSE, FALSE) /\ WithinBounds(store')

FramePointer(mouse, left_down, moved) ==
    Frame("none", mouse, left_down, moved) /\ WithinBounds(store')

Next ==
    \/ \E key \in CreationKeys, mouse \in MousePositions : FrameCreate(key, mouse)
    \/ \E key \in RayCountKeys, mouse \in MousePositions : FrameRayCount(key, mouse)
    \/ \E key \in ResizeKeys, mouse \in MousePositions : FrameResize(key, mouse)
    \/ \E key \in OrientationKeys, mouse \in MousePositions : FrameOrientation(key, mouse)
    \/ \E key \in SecondaryKeys, mouse \in MousePositions : FrameSecondary(key, mouse)
    \/ \E mouse \in MousePositions \cup {<<Filler.pos_x, Filler.pos_y>>} :
            FrameDelete(mouse)
    \/ \E mouse \in MousePositions : FrameDebug(mouse)
    \/ \E mouse \in MousePositions, left_down \in BOOLEAN, moved \in BOOLEAN :
            FramePointer(mouse, left_down, moved)

Spec == Init /\ [][Next]_vars

---------------------------------------------------------------------------
(* The cap on the store *)

\* C1: after any sequence of create, delete, move, resize, reorient and
\* ray-count frames the store holds at most OBJC_MAX_OBJ_COUNT objects, and a
\* frame with a creation key pressed while the store holds OBJC_MAX_OBJ_COUNT
\* objects leaves the store as it was and writes the capacity error.
C1_StoreWithinCap ==
    /\ [](Len(store) <= OBJC_MAX_OBJ_COUNT)
    /\ [][(Len(store) = OBJC_MAX_OBJ_COUNT /\ last'.op = "frame"
                /\ last'.key \in CreationKeys)
            => (store' = store /\ log' = MSG_TOO_MANY_OBJECTS)]_vars

\* A creation key was pressed on a full store and the error was written.
C1_Witness ==
    /\ Len(store) = OBJC_MAX_OBJ_COUNT
    /\ last.op = "frame"
    /\ last.key \in CreationKeys
    /\ log = MSG_TOO_MANY_OBJECTS
    /\ Live(store) = 1

\* An object without its rays, which every refresh regenerates.
Body(o) == [f \in DOMAIN o \ {"rays"} |-> o[f]]

\* C15: a frame with the delete key pressed while the pointer is over an object
\* removes exactly that object from the store and keeps the others in their
\* order, in every reachable scene, the full store of OBJC_MAX_OBJ_COUNT
\* objects included.
C15_DeleteRemovesObjectUnderPointer ==
    [][(/\ last'.op = "frame"
        /\ last'.key = "KEYB_DELETE"
        /\ object_at_cursor_index(store, last'.mouse[1], last'.mouse[2]).some)
       => LET i == object_at_cursor_index(store, last'.mouse[1], last'.mouse[2]).v
              left == remove_object_at_index(store, i)
          IN  /\ Len(store') = Len(store) - 1
              /\ \A k \in 1..Len(store') : Body(store'[k]) = Body(left[k])]_vars

---------------------------------------------------------------------------
(* The store helpers called one at a time on small scenes:                  *)
(* object_at_cursor_index, remove_object_at_index and object_change_size    *)
(* with the resize step of the keys.                                        *)

\* eprintln! of remove_object_at_index for an index past the end.
MSG_REMOVE_OUT_OF_BOUNDS == "Raytracer Err: Removing object at index is out of bounds."

\* What remove_object_at_index writes to standard error.
remove_object_at_index_log(collection, index) ==
    IF index <= Len(collection) THEN "" ELSE MSG_REMOVE_OUT_OF_BOUNDS

\* The scenes hold at most this many objects.
MaxStoreLen == 2

\* An object is at most this many resize steps away from the default radius.
MaxResizeSteps == 1

\* The objects of the scenes, as add_object_to_scene creates them: a circle and
\* an emitter on the same spot and an absorber 50 pixels to their right.
StoreObjects ==
    {NewObject("circle_none", 100, 100), NewObject("emitter_isotropic", 100, 100),
     NewObject("absorber_perfect", 150, 100)}

StoreScenes ==
    UNION {[1..n -> StoreObjects] : n \in 0..MaxStoreLen}

\* Pointer positions: on the first spot, 52 and 58 pixels to its right, and
\* away from every object.
StoreQueries == {<<100, 100>>, <<152, 100>>, <<158, 100>>, <<300, 300>>}

\* change_factor values: the resize step either way.
SizeDeltas == {OBJD_ENLARGE_REDUCE_FACTOR, -OBJD_ENLARGE_REDUCE_FACTOR}

InitStore ==
    /\ screen = MainScreen
    /\ store \in StoreScenes
    /\ collection_size = Len(store)
    /\ re_init_rays = FALSE
    /\ cursor_on_object_index = None
    /\ cursor_is_moving_object = FALSE
    /\ mouse_delta = FALSE
    /\ log = ""
    /\ last = [op |-> "none"]
    /\ call = [fn |-> "none"]
    /\ ret = None

StoreHitTest(mouse) ==
    /\ ret' = Some(object_at_cursor_index(store, mouse[1], mouse[2]))
    /\ last' = [op |-> "object_at_cursor_index", mouse |-> mouse]
    /\ log' = ""
    /\ UNCHANGED <<store, screen, collection_size, re_init_rays, cursor_on_object_index,
                   cursor_is_moving_object, mouse_delta, call>>

\* index counts from 1: the program's index is index - 1.
StoreRemove(index) ==
    /\ store' = remove_object_at_index(store, index)
    /\ log' = remove_object_at_index_log(store, index)
    /\ last' = [op |-> "remove_object_at_index", index |-> index]
    /\ ret' = None
    /\ UNCHANGED <<screen, collection_size, re_init_rays, cursor_on_object_index,
                   cursor_is_moving_object, mouse_delta, call>>

StoreChangeSize(mouse, change_factor) ==
    /\ store' = object_change_size(store, mouse[1], mouse[2], change_factor)
    /\ \A k \in DOMAIN store' :
            Abs(store'[k].radius - OBJD_CIRCLE_RADIUS)
                <= MaxResizeSteps * OBJD_ENLARGE_REDUCE_FACTOR
    /\ last' = [op |-> "object_change_size", mouse |-> mouse,
                change_factor |-> change_factor]
    /\ log' = ""
    /\ ret' = None
    /\ UNCHANGED <<screen, collection_size, re_init_rays, cursor_on_object_index,
                   cursor_is_moving_object, mouse_delta, call>>

NextStore ==
    \/ \E mouse \in StoreQueries : StoreHitTest(mouse)
    \/ \E index \in 1..(MaxStoreLen + 1) : StoreRemove(index)
    \/ \E mouse \in StoreQueries, change_factor \in SizeDeltas :
            StoreChangeSize(mouse, change_factor)

SpecStore == InitStore /\ [][NextStore]_vars

\* The bounding region of object o, its position plus or minus
\* OBJC_MOUSE_EPSILON + its own radius on both axes, contains the point.
InRegion(o, x, y) ==
    /\ Abs(x - o.pos_x) < OBJC_MOUSE_EPSILON + o.radius
    /\ Abs(y - o.pos_y) < OBJC_MOUSE_EPSILON + o.radius

\* C13: object_at_cursor_index returns the lowest index of an object whose
\* bounding region, taken with that object's own current radius, contains the
\* query point, and None when no object's region contains it.
C13_HitTestUsesOwnRadius ==
    last.op = "object_at_cursor_index" =>
        ret = Some(FirstIndex({k \in DOMAIN store :
                                InRegion(store[k], last.mouse[1], last.mouse[2])}))

---------------------------------------------------------------------------
(* Resizing one absorber or emitter over and over, by the step of the keys  *)
(* and by a shrink larger than any radius.                                  *)

\* The largest radius the object is enlarged to.
MaxRadius == 55

SizeObjectTypes ==
    {"absorber_perfect", "emitter_isotropic", "emitter_collimated", "emitter_spotlight"}

SizeFactors ==
    {OBJD_ENLARGE_REDUCE_FACTOR, -OBJD_ENLARGE_REDUCE_FACTOR, -(MaxRadius + 5)}

InitSize ==
    /\ screen = MainScreen
    /\ store \in {<<NewObject(t, 30, 40)>> : t \in SizeObjectTypes}
    /\ collection_size = Len(store)
    /\ re_init_rays = FALSE
    /\ cursor_on_object_index = None
    /\ cursor_is_moving_object = FALSE
    /\ mouse_delta = FALSE
    /\ log = ""
    /\ last = [op |-> "none"]
    /\ call = [fn |-> "none"]
    /\ ret = None

\* object_change_size with the pointer on the object's centre.
SizeChange(change_factor) ==
    /\ store' = object_change_size(store, store[1].pos_x, store[1].pos_y, change_factor)
    /\ store'[1].radius <= MaxRadius
    /\ last' = [op |-> "object_change_size", change_factor |-> change_factor]
    /\ UNCHANGED <<screen, collection_size, re_init_rays, cursor_on_object_index,
                   cursor_is_moving_object, mouse_delta, log, call, ret>>

NextSize == \E change_factor \in SizeFactors : SizeChange(change_factor)

SpecSize == InitSize /\ [][NextSize]_vars

\* The floor of a radius: zero for an absorber, the least radius an emitter is
\* displayed with for an emitter.
RadiusFloor(o) == IF IsEmitter(o) THEN EMITTER_SHRINK_RADIUS ELSE 0

\* C14: after any sequence of change_radius calls with positive and negative
\* deltas the radius of an absorber or an emitter is never negative, and a
\* shrink that would take the radius below the floor leaves it at the floor.
C14_RadiusNeverNegative ==
    /\ [](\A k \in DOMAIN store : store[k].radius >= 0)
    /\ [][(/\ last'.op = "object_change_size"
            /\ last'.change_factor < 0
            /\ store[1].radius >= RadiusFloor(store[1])
            /\ store[1].radius + last'.change_factor < RadiusFloor(store[1]))
           => store'[1].radius = RadiusFloor(store[1])]_vars

---------------------------------------------------------------------------
(* Dragging: an emitter and an absorber on the canvas, the rays clipped by  *)
(* the last refresh; an object is moved as main.rs moves a dragged object,  *)
(* then the rays are refreshed.                                             *)

MoveRayCounts == {OBJC_MIN_RAY_COUNT, 8}

MovePositions == {<<30, 40>>, <<10, 10>>, <<50, 60>>, <<30, 70>>}

\* The emitters of the scenes, with the rays of their creation.
MoveEmitters ==
    {EmitterIsotropic(30, 40, OBJD_CIRCLE_RADIUS, init_isotropic_rays(30, 40, n)) :
        n \in MoveRayCounts}
    \cup {EmitterCollimated(30, 40, OBJD_CIRCLE_RADIUS,
                            init_collimated_rays(30, 40, OBJD_COLLIMATED_ORIENTATION, 12, n),
                            OBJD_COLLIMATED_ORIENTATION, 12) : n \in MoveRayCounts}
    \cup {EmitterSpotlight(30, 40, OBJD_CIRCLE_RADIUS,
                           init_spotlight_rays(30, 40, OBJD_SPOTLIGHT_ORIENTATION,
                                               OBJD_SPOTLIGHT_BEAM_ANGLE, n),
                           OBJD_SPOTLIGHT_ORIENTATION, OBJD_SPOTLIGHT_BEAM_ANGLE) :
            n \in MoveRayCounts}

\* The absorbers of the scenes, shrunk to fit the canvas.
MoveAbsorbers == {AbsorberPerfect(45, 40, 5), AbsorberPerfect(30, 55, 5)}

MoveScenes ==
    {<<e, a>> : e \in MoveEmitters, a \in MoveAbsorbers}
    \cup {<<a, e>> : e \in MoveEmitters, a \in MoveAbsorbers}

InitMove ==
    /\ screen = MainScreen
    /\ store \in {check_for_occlusion(init_all_rays(scene)) : scene \in MoveScenes}
    /\ collection_size = Len(store)
    /\ re_init_rays = FALSE
    /\ cursor_on_object_index = None
    /\ cursor_is_moving_object = FALSE
    /\ mouse_delta = FALSE
    /\ log = ""
    /\ last = [op |-> "none"]
    /\ call = [fn |-> "none"]
    /\ ret = None

\* if let Some(object) = collection.get_mut(index) { .. move_object(mouse_x, mouse_y) }
MoveDrag(index, pos) ==
    /\ ~re_init_rays
    /\ index \in DOMAIN store
    /\ store' = [store EXCEPT ![index] = MoveObject(@, pos[1], pos[2])]
    /\ re_init_rays' = TRUE
    /\ last' = [op |-> "move_object", index |-> index, pos |-> pos]
    /\ UNCHANGED <<screen, collection_size, cursor_on_object_index,
                   cursor_is_moving_object, mouse_delta, log, call, ret>>

\* if re_init_rays { init_all_rays(); check_for_occlusion(); re_init_rays = false; }
MoveRefresh ==
    /\ re_init_rays
    /\ store' = check_for_occlusion(init_all_rays(store))
    /\ re_init_rays' = FALSE
    /\ last' = [op |-> "refresh"]
    /\ UNCHANGED <<screen, collection_size, cursor_on_object_index,
                   cursor_is_moving_object, mouse_delta, log, call, ret>>

NextMove ==
    \/ \E index \in 1..2, pos \in MovePositions : MoveDrag(index, pos)
    \/ MoveRefresh

SpecMove == InitMove /\ [][NextMove]_vars

\* The ray has the full extent the generators give a ray, screen_width times
\* the cosine by screen_height times the sine of its angle, to within the
\* rounding of its end to a whole pixel: no pass has clipped it.
FullExtent(ray) ==
    LET dx == ray.end_x - ray.start_x
        dy == ray.end_y - ray.start_y
        w == screen_width
        h == screen_height
    IN  Abs(dx * dx * h * h + dy * dy * w * w - w * w * h * h)
            <= w * h * (w + h) + w * w + h * h

\* C16: moving an emitter to (x, y) sets its position to (x, y) and generates
\* its rays again: it has as many rays as before, every isotropic or spotlight
\* ray starts at (x, y), the collimated starts keep their offsets around
\* (x, y), and every ray has its full extent again, whatever the occlusion pass
\* before had clipped; no other object changes.
C16_MoveRegeneratesRays ==
    [][(last'.op = "move_object" /\ IsEmitter(store[last'.index]))
       => LET i == last'.index
              x == last'.pos[1]
              y == last'.pos[2]
              before == store[i]
              after == store'[i]
          IN  /\ after.pos_x = x /\ after.pos_y = y
              /\ Len(after.rays) = Len(before.rays)
              /\ \A k \in DOMAIN after.rays :
                    /\ FullExtent(after.rays[k])
                    /\ IF after.kind = "EmitterCollimated"
                       THEN /\ after.rays[k].start_x - x
                                    = before.rays[k].start_x - before.pos_x
                            /\ after.rays[k].start_y - y
                                    = before.rays[k].start_y - before.pos_y
                       ELSE /\ after.rays[k].start_x = x
                            /\ after.rays[k].start_y = y
              /\ \A j \in DOMAIN store : j # i => store'[j] = store[j]]_vars

\* C16 witness: an emitter was just moved to a place where the absorber of the
\* scene lies across one of its rays, and the ray runs through it unclipped.
C16_Witness ==
    /\ last.op = "move_object"
    /\ IsEmitter(store[last.index])
    /\ store[last.index].pos_x = last.pos[1]
    /\ store[last.index].pos_y = last.pos[2]
    /\ \E j \in DOMAIN store, k \in DOMAIN store[last.index].rays :
            /\ IsAbsorber(store[j])
            /\ occlusion(store[j], store[last.index].rays[k]).some
            /\ FullExtent(store[last.index].rays[k])

---------------------------------------------------------------------------
(* The generators called for a single ray *)

InitSingle ==
    /\ LoopIdle
    /\ screen \in ScreenSizes
    /\ call \in {[c EXCEPT !.ray_count = 1] :
                    c \in IsotropicCalls \cup CollimatedCalls \cup SpotlightCalls}
    /\ ret = None

SpecSingle == InitSingle /\ [][NextGen]_vars

\* C19: the collimated generator called with ray count 1 fails cleanly: it
\* does not panic and returns no ray whose coordinates come from the division
\* by n - 1 = 0.
C19_SingleRayFailsCleanly ==
    (ret.some /\ call.fn = "init_collimated_rays" /\ call.ray_count = 1) =>
        \A k \in DOMAIN ret.v :
            /\ ret.v[k].start_x # NaN
            /\ ret.v[k].start_y # NaN
            /\ ret.v[k].end_x # NaN
            /\ ret.v[k].end_y # NaN

---------------------------------------------------------------------------
(* The mutation paths when OBJ_COLLECTION.write() reports poisoning *)

\* What RwLock::write returns: Ok with the guard, or Err (a PoisonError).
LockResults == {"Ok", "Err"}

MSG_ADD_LOCK_FAILED ==
    "Raytracer Err: Failed to add a new object to OBJ_COLLECTION. Failed to get write lock"

\* The panic message of Result::unwrap on Err.
MSG_UNWRAP_ERR == "called Result::unwrap() on an Err value: PoisonError"

\* How each mutation path takes the result of OBJ_COLLECTION.write(): with a
\* match that prints on Err, or with unwrap().
LockHandling ==
    [add_object_to_collection  |-> "match",
     remove_object_at_index    |-> "unwrap",
     object_change_size        |-> "unwrap",
     object_change_orientation |-> "unwrap",
     change_rays_count         |-> "unwrap",
     move_object               |-> "unwrap",
     init_all_rays             |-> "unwrap",
     check_for_occlusion       |-> "unwrap"]

LockPaths == DOMAIN LockHandling

LockMouse == <<100, 100>>

LockTargets == {<<100, 100>>, <<120, 110>>}

InitLock == InitStore

\* One mutation path entered with the lock result lock_result: mutated and
\* printed are the store and the line of standard error of the Ok branch.
\* unwrap() on Err panics before the store is touched.
WithWriteLock(path, lock_result, mutated, printed) ==
    /\ last.op = "none"
    /\ last' = [op |-> path, lock |-> lock_result]
    /\ IF lock_result = "Ok"
       THEN store' = mutated /\ log' = printed /\ ret' = None
       ELSE IF LockHandling[path] = "match"
       THEN store' = store /\ log' = MSG_ADD_LOCK_FAILED /\ ret' = None
       ELSE store' = store /\ log' = MSG_UNWRAP_ERR /\ ret' = Some("panic")
    /\ UNCHANGED <<screen, collection_size, re_init_rays, cursor_on_object_index,
                   cursor_is_moving_object, mouse_delta, call>>

LockAdd(lock_result, object_type) ==
    /\ object_type \in ObjectTypes
    /\ WithWriteLock("add_object_to_collection", lock_result,
                     add_object_to_scene(store, object_type, LockMouse[1], LockMouse[2]), "")

LockRemove(lock_result, index) ==
    /\ index >= 1
    /\ WithWriteLock("remove_object_at_index", lock_result,
                     remove_object_at_index(store, index),
                     remove_object_at_index_log(store, index))

LockChangeSize(lock_result, change_factor) ==
    /\ change_factor # 0
    /\ WithWriteLock("object_change_size", lock_result,
                     object_change_size(store, LockMouse[1], LockMouse[2], change_factor), "")

LockChangeOrientation(lock_result, change_factor) ==
    /\ change_factor # 0
    /\ WithWriteLock("object_change_orientation", lock_result,
                     object_change_orientation(store, LockMouse[1], LockMouse[2],
                                               change_factor), "")

LockChangeRaysCount(lock_result, index, change_rays) ==
    /\ index \in DOMAIN store
    /\ IsEmitter(store[index])
    /\ LET r == Emitters_change_rays_count(store[index], change_rays)
       IN  WithWriteLock("change_rays_count", lock_result,
                         [store EXCEPT ![index] = r.o], r.log)

LockMove(lock_result, index, pos) ==
    /\ index \in DOMAIN store
    /\ WithWriteLock("move_object", lock_result,
                     [store EXCEPT ![index] = MoveObject(@, pos[1], pos[2])], "")

LockInitAllRays(lock_result) ==
    /\ lock_result \in LockResults
    /\ WithWriteLock("init_all_rays", lock_result, init_all_rays(store), "")

LockCheckForOcclusion(lock_result) ==
    /\ lock_result \in LockResults
    /\ WithWriteLock("check_for_occlusion", lock_result, check_for_occlusion(store), "")

NextLock ==
    \E lock_result \in LockResults :
        \/ \E object_type \in ObjectTypes : LockAdd(lock_result, object_type)
        \/ \E index \in 1..(MaxStoreLen + 1) : LockRemove(lock_result, index)
        \/ \E change_factor \in SizeDeltas : LockChangeSize(lock_result, change_factor)
        \/ \E change_factor \in {OBJD_ORIENTATION_DELTA_FACTOR, -OBJD_ORIENTATION_DELTA_FACTOR} :
                LockChangeOrientation(lock_result, change_factor)
        \/ \E index \in 1..MaxStoreLen, change_rays \in {1, -1} :
                LockChangeRaysCount(lock_result, index, change_rays)
        \/ \E index \in 1..MaxStoreLen, pos \in LockTargets :
                LockMove(lock_result, index, pos)
        \/ LockInitAllRays(lock_result)
        \/ LockCheckForOcclusion(lock_result)

SpecLock == InitLock /\ [][NextLock]_vars

\* C18: whenever acquiring the write lock of the store reports poisoning, the
\* mutation path entered (add, remove, resize, reorient, ray-count change,
\* move, ray regeneration, occlusion) prints an error and skips its mutation,
\* leaving the store as it was, and does not panic.
C18_PoisonedLockReportedAndSkipped ==
    [][(last'.op \in LockPaths /\ last'.lock = "Err") =>
            /\ store' = store
            /\ log' # ""
            /\ ret' # Some("panic")]_vars

---------------------------------------------------------------------------
(* The loop's body step by step: call.pc is the part that runs next, last.op  *)
(* the part that ran last and last.drew the indexes of the objects it drew.   *)

PhaseNames == {"keys", "pointer", "init_all_rays", "check_for_occlusion", "draw"}

AllKeys ==
    CreationKeys \cup RayCountKeys \cup ResizeKeys \cup OrientationKeys \cup SecondaryKeys
    \cup {"KEYB_DELETE", "KEYB_DEBUG_SHOW_ALL_OBJ", "none"}

Locals ==
    [store |-> store, collection_size |-> collection_size,
     re_init_rays |-> re_init_rays,
     cursor_on_object_index |-> cursor_on_object_index,
     cursor_is_moving_object |-> cursor_is_moving_object, log |-> log]

InitPhase ==
    /\ screen = MainScreen
    /\ store = <<>>
    /\ collection_size = 0
    /\ re_init_rays = FALSE
    /\ cursor_on_object_index = None
    /\ cursor_is_moving_object = FALSE
    /\ mouse_delta = FALSE
    /\ log = ""
    /\ last = [op |-> "none", drew |-> <<>>]
    /\ call = [fn |-> "loop", pc |-> "keys", mouse |-> <<0, 0>>]
    /\ ret = None

\* The key chain of the iteration, with the mouse position of its frame.
PhaseKeys(key, mouse) ==
    /\ call.pc = "keys"
    /\ \E l1 \in {KeyHandling([Locals EXCEPT !.log = ""], key, mouse[1], mouse[2])} :
        /\ WithinBounds(l1.store)
        /\ store' = l1.store
        /\ collection_size' = l1.collection_size
        /\ re_init_rays' = l1.re_init_rays
        /\ cursor_on_object_index' = l1.cursor_on_object_index
        /\ cursor_is_moving_object' = l1.cursor_is_moving_object
        /\ log' = l1.log
    /\ call' = [call EXCEPT !.pc = "pointer", !.mouse = mouse]
    /\ last' = [op |-> "keys", drew |-> <<>>]
    /\ UNCHANGED <<screen, mouse_delta, ret>>

\* The pointer handling of the iteration.
PhasePointer(left_down) ==
    /\ call.pc = "pointer"
    /\ \E l2 \in {PointerHandling(Locals, call.mouse[1], call.mouse[2], left_down,
                                  mouse_delta)} :
        /\ store' = l2.store
        /\ re_init_rays' = l2.re_init_rays
        /\ cursor_on_object_index' = l2.cursor_on_object_index
        /\ cursor_is_moving_object' = l2.cursor_is_moving_object
        /\ call' = [call EXCEPT !.pc = IF l2.re_init_rays THEN "init_all_rays" ELSE "draw"]
    /\ last' = [op |-> "pointer",
                drew |-> PointerDraws(Locals, call.mouse[1], call.mouse[2], left_down,
                                      mouse_delta)]
    /\ UNCHANGED <<screen, collection_size, mouse_delta, log, ret>>

PhaseInitAllRays ==
    /\ call.pc = "init_all_rays"
    /\ store' = init_all_rays(store)
    /\ call' = [call EXCEPT !.pc = "check_for_occlusion"]
    /\ last' = [op |-> "init_all_rays", drew |-> <<>>]
    /\ UNCHANGED <<screen, collection_size, re_init_rays, cursor_on_object_index,
                   cursor_is_moving_object, mouse_delta, log, ret>>

PhaseCheckForOcclusion ==
    /\ call.pc = "check_for_occlusion"
    /\ store' = check_for_occlusion(store)
    /\ re_init_rays' = FALSE
    /\ call' = [call EXCEPT !.pc = "draw"]
    /\ last' = [op |-> "check_for_occlusion", drew |-> <<>>]
    /\ UNCHANGED <<screen, collection_size, cursor_on_object_index,
                   cursor_is_moving_object, mouse_delta, log, ret>>

\* The draw pass over the store, then mouse_delta = mouse_delta_position().
PhaseDraw(moved) ==
    /\ call.pc = "draw"
    /\ last' = [op |-> "draw", drew |-> [k \in DOMAIN store |-> k]]
    /\ mouse_delta' = moved
    /\ call' = [call EXCEPT !.pc = "keys"]
    /\ UNCHANGED <<store, screen, collection_size, re_init_rays, cursor_on_object_index,
                   cursor_is_moving_object, log, ret>>

NextPhase ==
    \/ \E key \in AllKeys, mouse \in MousePositions : PhaseKeys(key, mouse)
    \/ \E left_down \in BOOLEAN : PhasePointer(left_down)
    \/ PhaseInitAllRays
    \/ PhaseCheckForOcclusion
    \/ \E moved \in BOOLEAN : PhaseDraw(moved)

SpecPhase == InitPhase /\ [][NextPhase]_vars

\* The parts of an iteration follow one another as mutation (keys, pointer),
\* init_all_rays, check_for_occlusion, draw, and the store's objects change
\* only in the mutation parts: regeneration and occlusion touch rays alone and
\* the draw pass nothing.
C20_PhasesInOrder ==
    [][/\ last'.op = "pointer" => last.op = "keys"
       /\ last'.op = "init_all_rays" => last.op = "pointer"
       /\ last'.op = "check_for_occlusion" => last.op = "init_all_rays"
       /\ last'.op = "draw" => last.op \in {"pointer", "check_for_occlusion"}
       /\ last'.op = "keys" => last.op \in {"none", "draw"}
       /\ last'.op \in {"init_all_rays", "check_for_occlusion"} =>
            /\ Len(store') = Len(store)
            /\ \A k \in DOMAIN store : Body(store'[k]) = Body(store[k])
       /\ last'.op = "draw" => store' = store]_vars

\* No object of the scene is drawn in a part of the iteration before the draw
\* pass, that is, before the iteration's occlusion pass is over.
C20_NoDrawBeforeOcclusion ==
    [][last'.drew # <<>> => last'.op = "draw"]_vars

\* C20: within every iteration of the loop the phases run in the order
\* mutation, init_all_rays, check_for_occlusion, draw: no object of the scene
\* is drawn before the iteration's occlusion pass is over, and nothing is
\* mutated once regeneration has started.
C20_PhaseOrder == C20_PhasesInOrder /\ C20_NoDrawBeforeOcclusion

---------------------------------------------------------------------------
(* The guards of OBJ_COLLECTION along each path of the loop: what a path    *)
(* does with the lock, in order ("read" and "write" are acquisitions,       *)
(* "release" the drop of the guard acquired last).                          *)

\* object_at_cursor_index and object_at_cursor_type: temp lives to the return.
ReadSpan == <<"read", "release">>

\* let mut collection = OBJ_COLLECTION.write().unwrap(); to the end of its block.
WriteSpan == <<"write", "release">>

\* A mutant of check_for_occlusion: the read guard is not closed in its block.
check_for_occlusion_locks_Unscoped == <<"read", "write", "release", "release">>

\* check_for_occlusion: the read guard lives inside the block that collects
\* the absorbers, the write guard inside the block after it.
check_for_occlusion_locks == ReadSpan \o WriteSpan

GuardPaths ==
    {"create", "ray_count", "secondary", "resize", "orientation", "delete", "debug",
     "pointer", "refresh", "draw"}

\* The lock events of a path of main on the store collection with the mouse
\* at (mouse_x, mouse_y).
PathLocks(path, collection, mouse_x, mouse_y) ==
    LET index == object_at_cursor_index(collection, mouse_x, mouse_y)
        type == object_at_cursor_type(collection, mouse_x, mouse_y, FALSE)
    IN  CASE path = "create" -> WriteSpan
          [] path = "ray_count" ->
                ReadSpan \o ReadSpan
                \o (IF type = "Emitter" /\ index.some THEN WriteSpan ELSE <<>>)
          [] path = "secondary" ->
                ReadSpan \o ReadSpan \o (IF index.some THEN WriteSpan ELSE <<>>)
          [] path \in {"resize", "orientation"} ->
                ReadSpan
                \o (IF type # "None"
                    THEN ReadSpan \o (IF index.some THEN WriteSpan ELSE <<>>)
                    ELSE <<>>)
          [] path = "delete" ->
                IF Len(collection) >= 1
                THEN ReadSpan \o (IF index.some THEN WriteSpan ELSE <<>>)
                ELSE <<>>
          [] path = "debug" -> ReadSpan
          [] path = "pointer" -> ReadSpan \o (IF index.some THEN WriteSpan ELSE <<>>)
          [] path = "refresh" -> WriteSpan \o check_for_occlusion_locks
          [] path = "draw" -> ReadSpan

\* A path of the loop is entered with no guard held from the one before.
GuardEnter(path, mouse) ==
    /\ call.fn = "none"
    /\ call' = [fn |-> path, events |-> PathLocks(path, store, mouse[1], mouse[2]),
                at |-> 1, guards |-> <<>>]
    /\ last' = [op |-> "enter", path |-> path]
    /\ UNCHANGED <<store, screen, collection_size, re_init_rays, cursor_on_object_index,
                   cursor_is_moving_object, mouse_delta, log, ret>>

\* OBJ_COLLECTION.read() or .write() at the path's position.
GuardAcquire ==
    /\ call.fn \in GuardPaths
    /\ call.at <= Len(call.events)
    /\ call.events[call.at] \in {"read", "write"}
    /\ call' = [call EXCEPT !.at = @ + 1, !.guards = Append(@, call.events[call.at])]
    /\ last' = [op |-> "acquire", kind |-> call.events[call.at]]
    /\ UNCHANGED <<store, screen, collection_size, re_init_rays, cursor_on_object_index,
                   cursor_is_moving_object, mouse_delta, log, ret>>

\* The guard acquired last goes out of scope.
GuardRelease ==
    /\ call.fn \in GuardPaths
    /\ call.at <= Len(call.events)
    /\ call.events[call.at] = "release"
    /\ call' = [call EXCEPT !.at = @ + 1,
                            !.guards = SubSeq(@, 1, Len(@) - 1)]
    /\ last' = [op |-> "release"]
    /\ UNCHANGED <<store, screen, collection_size, re_init_rays, cursor_on_object_index,
                   cursor_is_moving_object, mouse_delta, log, ret>>

\* The path is over.
GuardLeave ==
    /\ call.fn \in GuardPaths
    /\ call.at > Len(call.events)
    /\ call' = [fn |-> "none"]
    /\ last' = [op |-> "leave", path |-> call.fn]
    /\ UNCHANGED <<store, screen, collection_size, re_init_rays, cursor_on_object_index,
                   cursor_is_moving_object, mouse_delta, log, ret>>

NextGuard ==
    \/ \E path \in GuardPaths, mouse \in StoreQueries : GuardEnter(path, mouse)
    \/ GuardAcquire
    \/ GuardRelease
    \/ GuardLeave

SpecGuard == InitStore /\ [][NextGuard]_vars

\* C21: no path of the loop requests the lock of the store, for reading or
\* for writing, while it still holds a guard on it: every guard is released
\* before init_all_rays, check_for_occlusion or a hit test acquires the lock.
C21_NoNestedAcquisition ==
    [][last'.op = "acquire" => call.guards = <<>>]_vars

\* C21 witness: check_for_occlusion holds its write guard, the read guard it
\* took before released.
C21_Witness ==
    /\ call.fn = "refresh"
    /\ call.at = 6
    /\ call.guards = <<"write">>
    /\ last.op = "acquire"

---------------------------------------------------------------------------
(* The loop on scenes of an emitter and an absorber: the emitter at the top *)
(* of the canvas, the absorber at the bottom, so that a pointer position    *)
(* exists over each alone and one over both.                                *)

SceneRayCount == 8

SceneEmitters ==
    {EmitterIsotropic(30, 5, OBJD_CIRCLE_RADIUS, init_isotropic_rays(30, 5, SceneRayCount)),
     EmitterCollimated(30, 5, OBJD_CIRCLE_RADIUS,
                       init_collimated_rays(30, 5, HALF_PI, 12, SceneRayCount), HALF_PI, 12),
     EmitterSpotlight(30, 5, OBJD_CIRCLE_RADIUS,
                      init_spotlight_rays(30, 5, 3 * HALF_PI, OBJD_SPOTLIGHT_BEAM_ANGLE,
                                          SceneRayCount),
                      3 * HALF_PI, OBJD_SPOTLIGHT_BEAM_ANGLE)}

SceneAbsorber == AbsorberPerfect(30, 70, OBJD_CIRCLE_RADIUS)

\* Over the absorber alone, and over both objects.
ScenePositions == {<<30, 70>>, <<30, 40>>}

SceneKeys == {"KEYB_DELETE"} \cup ResizeKeys \cup OrientationKeys \cup RayCountKeys

\* The scenes as two creations and the refresh of their frames leave them.
SceneStores ==
    {check_for_occlusion(init_all_rays(<<e, SceneAbsorber>>)) : e \in SceneEmitters}
    \cup {check_for_occlusion(init_all_rays(<<SceneAbsorber, e>>)) : e \in SceneEmitters}

\* The scenes the model follows: at most MaxResizeSteps resize or ray-count
\* steps away from the radius and the ray count of creation, all objects
\* together.
SceneBounds(collection) ==
    LET far == [k \in DOMAIN collection |->
                    Steps(collection[k].radius, OBJD_CIRCLE_RADIUS,
                          OBJD_ENLARGE_REDUCE_FACTOR)
                    + (IF IsEmitter(collection[k])
                       THEN Abs(Len(collection[k].rays) - SceneRayCount) ELSE 0)]
    IN  \A k \in DOMAIN collection :
            /\ far[k] <= MaxResizeSteps
            /\ \A j \in DOMAIN collection : j # k => far[j] = 0 \/ far[k] = 0

InitScene ==
    /\ screen = MainScreen
    /\ store \in SceneStores
    /\ collection_size = Len(store)
    /\ re_init_rays = FALSE
    /\ cursor_on_object_index = None
    /\ cursor_is_moving_object = FALSE
    /\ mouse_delta = FALSE
    /\ log = ""
    /\ last = [op |-> "none"]
    /\ call = [fn |-> "none"]
    /\ ret = None

SceneKey(key, mouse) == Frame(key, mouse, FALSE, FALSE) /\ SceneBounds(store')

ScenePointer(mouse, left_down, moved) ==
    Frame("none", mouse, left_down, moved) /\ SceneBounds(store')

NextScene ==
    \/ \E key \in SceneKeys, mouse \in ScenePositions : SceneKey(key, mouse)
    \/ \E mouse \in ScenePositions, left_down \in BOOLEAN, moved \in BOOLEAN :
            ScenePointer(mouse, left_down, moved)

SpecScene == InitScene /\ [][NextScene]_vars

\* The rays of an emitter as its generator gives them, at full length.
FreshRays(o) == GenerateRays(o, o.pos_x, o.pos_y, CurrentRayCount(o))

\* An absorber of the store before is gone from its place afterwards, or
\* smaller there: it was removed, moved or shrunk.
AbsorberEased(before, after) ==
    \E k \in DOMAIN before :
        /\ IsAbsorber(before[k])
        /\ \A j \in DOMAIN after :
                ~(/\ IsAbsorber(after[j])
                  /\ after[j].pos_x = before[k].pos_x
                  /\ after[j].pos_y = before[k].pos_y
                  /\ after[j].radius >= before[k].radius)

\* C22: after a frame that removes, moves or shrinks an absorber, every ray
\* that no absorber of the store now meets has the full length its generator
\* gives it, whatever it was clipped to before.
C22_EasedAbsorberFreesRays ==
    [][(last'.op = "frame" /\ AbsorberEased(store, store'))
       => \A k \in DOMAIN store' :
            IsEmitter(store'[k]) =>
                /\ Len(store'[k].rays) = Len(FreshRays(store'[k]))
                /\ \A j \in DOMAIN store'[k].rays :
                        (\A a \in AbsorbersOf(store') :
                            ~occlusion(a, FreshRays(store'[k])[j]).some)
                        => store'[k].rays[j] = FreshRays(store'[k])[j]]_vars

\* C22 witness: the absorber was deleted, and a ray that it clipped where it
\* stood has its full length.
C22_Witness ==
    /\ last.op = "frame"
    /\ last.key = "KEYB_DELETE"
    /\ Len(store) = 1
    /\ IsEmitter(store[1])
    /\ \E j \in DOMAIN store[1].rays :
            /\ occlusion(SceneAbsorber, FreshRays(store[1])[j]).some
            /\ store[1].rays[j] = FreshRays(store[1])[j]

\* The smaller root (-b - sqrt(D)) / (2 a) of the quadratic lies in (0, 1],
\* in whole numbers: 0 < t iff b < 0 and c > 0; t <= 1 iff -b <= 2 a or
\* a + b + c <= 0.
SmallerRootInRange(q) ==
    /\ q.a > 0 /\ q.discriminant >= 0
    /\ q.b < 0 /\ q.c > 0
    /\ (-q.b <= 2 * q.a \/ q.a + q.b + q.c <= 0)

\* The larger root (-b + sqrt(D)) / (2 a) lies in (0, 1]: 0 < t iff b < 0 or
\* c < 0; t <= 1 iff 2 a + b >= 0 and a + b + c >= 0.
LargerRootInRange(q) ==
    /\ q.a > 0 /\ q.discriminant >= 0
    /\ (q.b < 0 \/ q.c < 0)
    /\ 2 * q.a + q.b >= 0 /\ q.a + q.b + q.c >= 0

\* start + t * d for the root t of the sign given, where the discriminant is
\* a square and the divisions leave no remainder.
RootPoint(q, ray, sign) ==
    LET s == FloorSqrt(q.discriminant)
    IN  <<ray.start_x + ((-q.b + sign * s) * q.slope[1]) \div (2 * q.a),
          ray.start_y + ((-q.b + sign * s) * q.slope[2]) \div (2 * q.a)>>

\* C23: when the quadratic of a ray of some length has a discriminant that is
\* not negative, occlusion returns start + t * d for the smaller root t if it
\* lies in (0, 1], otherwise for the larger root if that lies in (0, 1],
\* otherwise None: never a point with t <= 0 or t > 1.
C23_RootSelection ==
    LET q == Quadratic(call.occluder, call.ray)
    IN  (ret.some /\ call.fn = "occlusion" /\ q.a > 0 /\ q.discriminant >= 0) =>
            ret.v = IF SmallerRootInRange(q) THEN Some(RootPoint(q, call.ray, -1))
                    ELSE IF LargerRootInRange(q) THEN Some(RootPoint(q, call.ray, 1))
                    ELSE None

\* C23 witness: both roots lie in (0, 1], at different points, and the point
\* of the smaller one was returned.
C23_Witness ==
    LET q == Quadratic(call.occluder, call.ray)
    IN  /\ ret.some
        /\ call.fn = "occlusion"
        /\ SmallerRootInRange(q)
        /\ LargerRootInRange(q)
        /\ RootPoint(q, call.ray, -1) # RootPoint(q, call.ray, 1)
        /\ ret.v = Some(RootPoint(q, call.ray, -1))

\* C26: for a ray of no length (its start is its end) and any absorber, one
\* whose disk contains the start included, occlusion divides by nothing that
\* is zero and returns None.
C26_NoLengthRayNotOccluded ==
    (/\ ret.some
     /\ call.fn = "occlusion"
     /\ call.ray.start_x = call.ray.end_x
     /\ call.ray.start_y = call.ray.end_y)
    => /\ Quadratic(call.occluder, call.ray).a = 0
       /\ Solution(Quadratic(call.occluder, call.ray), -1) = 0
       /\ Solution(Quadratic(call.occluder, call.ray), 1) = 0
       /\ ret.v = None

\* C26 witness: a ray of no length that starts inside the absorber's disk
\* was tested and None returned.
C26_Witness ==
    /\ ret.some
    /\ call.fn = "occlusion"
    /\ call.ray.start_x = call.ray.end_x
    /\ call.ray.start_y = call.ray.end_y
    /\ Quadratic(call.occluder, call.ray).c < 0
    /\ ret.v = None

\* C24: in the collimated generator the starts are centred on the emitter's
\* position for every n >= 2, even or odd: the offset of ray i is the negative
\* of the offset of ray n - 1 - i, so the two starts add up to twice the
\* position (to within the rounding of the two starts to whole pixels).
C24_CollimatedCentred ==
    (ret.some /\ call.fn = "init_collimated_rays" /\ call.ray_count >= 2) =>
        LET rays == ret.v
            n == call.ray_count
        IN  \A k \in 1..n :
                /\ Abs(rays[k].start_x + rays[n + 1 - k].start_x - 2 * call.start_x) <= 1
                /\ Abs(rays[k].start_y + rays[n + 1 - k].start_y - 2 * call.start_y) <= 1

Sign(x) == IF x > 0 THEN 1 ELSE IF x < 0 THEN -1 ELSE 0

\* The sign of the vertical component, end minus start, of a ray.
VerticalSign(ray) == Sign(ray.end_y - ray.start_y)

\* C25: the three generators apply one screen-coordinate convention: for the
\* same angle the vertical component of end minus start has the same sign in
\* each.  Every ray of a call is compared with the ray the collimated
\* generator gives for the ray's angle as its orientation.
C25_OneVerticalConvention ==
    ret.some =>
        \A k \in 1..Len(ret.v) :
            VerticalSign(ret.v[k])
                = VerticalSign(init_collimated_rays(call.start_x, call.start_y,
                                                    RayAngle(call, k), 12, 2)[1])

\* C27: at the draw pass of every iteration each emitter holds the rays that
\* generating them again from its position, orientation, type parameter and
\* ray count and clipping them against the absorbers now in the store gives:
\* no stale and no unclipped ray is drawn, whatever the frames before did.
C27_DrawnRaysAreCurrent ==
    last.op = "frame" =>
        LET current == check_for_occlusion(init_all_rays(store))
        IN  \A k \in DOMAIN store :
                IsEmitter(store[k]) => store[k].rays = current[k].rays

\* C27 witness: the absorber was dragged to a new place and the emitter is
\* drawn with a ray clipped by it there.
C27_Witness ==
    /\ last.op = "frame"
    /\ last.key = "none"
    /\ \E a \in DOMAIN store, k \in DOMAIN store :
            /\ IsAbsorber(store[a])
            /\ store[a].pos_y = 40
            /\ IsEmitter(store[k])
            /\ \E j \in DOMAIN store[k].rays :
                    /\ store[k].rays[j] # FreshRays(store[k])[j]
                    /\ store[k].rays[j] = OccludeRay(FreshRays(store[k])[j], <<store[a]>>)

\* What object_at_cursor_type calls the kind of an object (specify = false).
KindName(o) ==
    IF IsEmitter(o) THEN "Emitter"
    ELSE IF IsAbsorber(o) THEN "Absorber"
    ELSE "ObjectCircle"

\* C28: for every store and pointer position object_at_cursor_type reports a
\* kind other than "None" exactly when object_at_cursor_index returns an
\* index, and the kind reported is that of the object at the index, so that
\* the ray-count, resize and reorient keys change the object whose kind was
\* checked.
C28_TypeAndIndexAgree ==
    \A mouse \in StoreQueries :
        LET type == object_at_cursor_type(store, mouse[1], mouse[2], FALSE)
            index == object_at_cursor_index(store, mouse[1], mouse[2])
        IN  /\ type # "None" <=> index.some
            /\ index.some => type = KindName(store[index.v])

\* C29: at the start of every iteration the loop's counter collection_size
\* is the number of objects in the store, after any creations and deletions.
C29_CounterIsStoreLength ==
    (call.fn = "loop" /\ call.pc = "keys") => collection_size = Len(store)

\* C29 witness: an iteration starts after one that created an object.
C29_Witness ==
    /\ call.fn = "loop"
    /\ call.pc = "keys"
    /\ last.op = "draw"
    /\ collection_size = 1
    /\ Len(store) = 1

\* C30: while the left button stays down during a drag (the loop keeps
\* cursor_is_moving_object from one pointer frame to the next), the object
\* being moved is the same in every iteration, also when the pointer passes
\* over another object with a lower index in the store.
C30_DragKeepsItsObject ==
    [][(/\ last'.op = "frame"
        /\ last'.key = "none"
        /\ cursor_is_moving_object
        /\ cursor_on_object_index.some
        /\ cursor_is_moving_object')
       => cursor_on_object_index' = cursor_on_object_index]_vars

=============================================================================
